---- MODULE Spec2Model ----
(***************************************************************************)
(* LinkedIn Genie front end: App (both revisions of App.tsx), FilterPanel, *)
(* QueryBar, NodeDetail, UploadForm and the api service they call.         *)
(*                                                                         *)
(* Conventions.  A JavaScript string is a sequence of one-character        *)
(* strings.  An optional value (a field that may be undefined, a state     *)
(* that may be null) is a sequence of length 0 (absent) or 1 (present).    *)
(***************************************************************************)
EXTENDS Integers, Sequences, FiniteSets, TLC

VARIABLES
    appVersion,        \* which revision of App.tsx runs: "memo" (useMemo) or "state" (setFilteredData)
    currentView,       \* App.currentView
    graphData,         \* App.graphData
    metrics,           \* App.metrics
    filters,           \* App.filters
    queryResult,       \* App.queryResult ("memo" revision)
    filteredDataState, \* App.filteredData ("state" revision, a useState cell)
    selectedNode,      \* App.selectedNode
    showSettings,      \* App.showSettings
    showMetrics,       \* App.showMetrics
    pathHighlight,     \* App.pathHighlight ("state" revision)
    subgraphMode,      \* App.subgraphMode ("state" revision)
    queryBar,          \* QueryBar state: query, isLoading, lastExplanation
    uploadForm,        \* UploadForm state: file, csvPreview, columnMapping, isLoading, step
    nodeDetail,        \* NodeDetail state: targetNodeId, subgraphDepth
    settingsPanel,     \* SettingsPanel state: settings, privacySettings
    connectionsList,   \* ConnectionsList state ("memo" revision): searchTerm, sortField, sortOrder
    pending,           \* asynchronous operations not yet settled: axios requests, FileReader loads
    backend,           \* what the server holds: the upload it answers against
    observed           \* history: the last settled request, the running build and App's state at its start

vars == <<appVersion, currentView, graphData, metrics, filters, queryResult,
          filteredDataState, selectedNode, showSettings, showMetrics,
          pathHighlight, subgraphMode, queryBar, uploadForm, nodeDetail,
          settingsPanel, connectionsList, pending, backend, observed>>

appVars == <<currentView, graphData, metrics, filters, queryResult,
             filteredDataState, selectedNode, showSettings, showMetrics,
             pathHighlight, subgraphMode>>

----------------------------------------------------------------------------
(* Optional values *)

Null == <<>>

Some(x) == <<x>>

IsNull(o) == o = <<>>

Val(o) == o[1]

Range(s) == {s[i] : i \in 1..Len(s)}

----------------------------------------------------------------------------
(* Strings *)

Str_Ac   == <<"A", "c">>
Str_xAC  == <<"x", "A", "C">>
Str_B    == <<"B">>
Str_Eng  == <<"E", "n", "g">>
Str_eng  == <<"e", "n", "g">>
Str_dev  == <<"d", "e", "v">>
Str_DevEng == <<"D", "e", "v", "-", "E", "n", "g">>
Str_SF   == <<"S", "F">>
Str_Sf   == <<"S", "f">>
Str_xsfo == <<"x", "s", "f", "o">>
Str_LA   == <<"L", "A">>
Str_empty == <<>>

\* String.prototype.toLowerCase on one character
LowerChar(c) ==
    CASE c = "A" -> "a"
      [] c = "B" -> "b"
      [] c = "C" -> "c"
      [] c = "D" -> "d"
      [] c = "E" -> "e"
      [] c = "F" -> "f"
      [] c = "L" -> "l"
      [] c = "N" -> "n"
      [] c = "S" -> "s"
      [] OTHER -> c

\* a toLowerCase that leaves the letters as they are
toLowerCase_asIs(s) == s

toLowerCase(s) == [i \in 1..Len(s) |-> LowerChar(s[i])]

\* String.prototype.includes: t occurs in s as a contiguous substring
includes(s, t) ==
    \E i \in 1..(Len(s) - Len(t) + 1) : SubSeq(s, i, i + Len(t) - 1) = t

\* Array.prototype.includes on a list of strings
listIncludes(list, x) == \E i \in 1..Len(list) : list[i] = x

----------------------------------------------------------------------------
(* Dates.  A date string is "" (kind "empty"), a string Date cannot parse  *)
(* (kind "bad") or a calendar day (kind "iso").  new Date(s) is a number   *)
(* of days or NaN; every comparison with NaN is false.                     *)

NaN == -1

DateEmpty == [kind |-> "empty", day |-> 0]

DateBad == [kind |-> "bad", day |-> 0]

DateIso(d) == [kind |-> "iso", day |-> d]

\* new Date(dateString)
NewDate(s) == IF s.kind = "iso" THEN s.day ELSE NaN

\* a < b on Date objects
DateLt(a, b) == a # NaN /\ b # NaN /\ a < b

\* a > b on Date objects
DateGt(a, b) == a # NaN /\ b # NaN /\ a > b

\* truthiness of an optional date string
DateTruthy(o) == ~IsNull(o) /\ Val(o).kind # "empty"

\* truthiness of an optional string
StrTruthy(o) == ~IsNull(o) /\ Val(o) # <<>>

\* truthiness of an optional number
NumTruthy(o) == ~IsNull(o) /\ Val(o) # 0

\* (x || 0) on an optional number
OrZero(o) == IF NumTruthy(o) THEN Val(o) ELSE 0

----------------------------------------------------------------------------
(* types.ts *)

\* NodeData
Node(id, company, position, location, degree, connected_on, email) ==
    [id |-> id, company |-> company, position |-> position,
     location |-> location, degree |-> degree, connected_on |-> connected_on,
     email |-> email]

\* EdgeData
Edge(source, target, weight) ==
    [source |-> source, target |-> target, weight |-> weight]

NodeIds(nodes) == {nodes[i].id : i \in 1..Len(nodes)}

\* FilterOptions; {} has every field absent
EmptyFilters ==
    [companies |-> Null, positions |-> Null, location |-> Null,
     min_degree |-> Null, date_from |-> Null, date_to |-> Null]

----------------------------------------------------------------------------
(* App filtering *)

\* filters.companies!.some(company => node.data.company?.toLowerCase().includes(company.toLowerCase()))
companyTest(node, list) ==
    \E i \in 1..Len(list) :
        /\ ~IsNull(node.company)
        /\ includes(toLowerCase(Val(node.company)), toLowerCase(list[i]))

\* filters.positions!.some(position => node.data.position?.toLowerCase().includes(position.toLowerCase()))
positionTest(node, list) ==
    \E i \in 1..Len(list) :
        /\ ~IsNull(node.position)
        /\ includes(toLowerCase(Val(node.position)), toLowerCase(list[i]))

\* node.data.location?.toLowerCase().includes(filters.location!.toLowerCase())
locationTest(node, location) ==
    /\ ~IsNull(node.location)
    /\ includes(toLowerCase(Val(node.location)), toLowerCase(location))

\* (node.data.degree || 0) >= filters.min_degree!
degreeTest(node, min_degree) == OrZero(node.degree) >= min_degree

\* the callback of the connection-date filter
dateTest(node, date_from, date_to) ==
    IF ~DateTruthy(node.connected_on) THEN FALSE
    ELSE LET connectionDate == NewDate(Val(node.connected_on)) IN
         IF DateTruthy(date_from) /\ DateLt(connectionDate, NewDate(Val(date_from))) THEN FALSE
         ELSE IF DateTruthy(date_to) /\ DateGt(connectionDate, NewDate(Val(date_to))) THEN FALSE
         ELSE TRUE

\* a company step that tests only filters.companies, not its length
companyStep_noLength(nodes, f) ==
    IF ~IsNull(f.companies)
    THEN SelectSeq(nodes, LAMBDA n : companyTest(n, Val(f.companies)))
    ELSE nodes

\* if (f.companies && f.companies.length > 0) filteredNodes = filteredNodes.filter(...)
companyStep(nodes, f) ==
    IF ~IsNull(f.companies) /\ Len(Val(f.companies)) > 0
    THEN SelectSeq(nodes, LAMBDA n : companyTest(n, Val(f.companies)))
    ELSE nodes

positionStep(nodes, f) ==
    IF ~IsNull(f.positions) /\ Len(Val(f.positions)) > 0
    THEN SelectSeq(nodes, LAMBDA n : positionTest(n, Val(f.positions)))
    ELSE nodes

locationStep(nodes, f) ==
    IF StrTruthy(f.location)
    THEN SelectSeq(nodes, LAMBDA n : locationTest(n, Val(f.location)))
    ELSE nodes

degreeStep(nodes, f) ==
    IF NumTruthy(f.min_degree)
    THEN SelectSeq(nodes, LAMBDA n : degreeTest(n, Val(f.min_degree)))
    ELSE nodes

dateStep(nodes, f) ==
    IF DateTruthy(f.date_from) \/ DateTruthy(f.date_to)
    THEN SelectSeq(nodes, LAMBDA n : dateTest(n, f.date_from, f.date_to))
    ELSE nodes

\* an edge step that keeps an edge when either endpoint survives
edgeStep_either(edges, filteredNodes) ==
    LET nodeIds == {filteredNodes[i].id : i \in 1..Len(filteredNodes)} IN
    SelectSeq(edges, LAMBDA e : e.source \in nodeIds \/ e.target \in nodeIds)

\* edges.filter(edge => nodeIds.has(edge.data.source) && nodeIds.has(edge.data.target))
edgeStep(edges, filteredNodes) ==
    LET nodeIds == {filteredNodes[i].id : i \in 1..Len(filteredNodes)} IN
    SelectSeq(edges, LAMBDA e : e.source \in nodeIds /\ e.target \in nodeIds)

\* the body of the filteredData memo below its two early returns
memoFilter(data, f) ==
    LET filteredNodes ==
            dateStep(degreeStep(locationStep(positionStep(companyStep(data.nodes, f), f), f), f), f)
    IN  [nodes |-> filteredNodes, edges |-> edgeStep(data.edges, filteredNodes)]

\* const filteredData = useMemo(...) of the "memo" revision
filteredDataMemo(gd, f, qr) ==
    IF ~IsNull(qr) THEN qr
    ELSE IF IsNull(gd) THEN Null
    ELSE Some(memoFilter(Val(gd), f))

\* applyFilters of the "state" revision: no connection-date step
applyFilters(data, filterOptions) ==
    LET filteredNodes ==
            degreeStep(locationStep(positionStep(companyStep(data.nodes, filterOptions),
                                                 filterOptions), filterOptions), filterOptions)
    IN  [nodes |-> filteredNodes, edges |-> edgeStep(data.edges, filteredNodes)]

\* what App passes to the list / graph view and to NodeDetail as filteredData
filteredData ==
    IF appVersion = "memo"
    THEN filteredDataMemo(graphData, filters, queryResult)
    ELSE filteredDataState

----------------------------------------------------------------------------
(* Uploaded files and the graphs the server builds from them *)

Files == {"fileA", "fileB"}

\* email addresses: the second holds "sf" in capitals
Str_mailA == <<"a", "@", "x">>

Str_mailSF == <<"S", "F", "@", "x">>

NodesA ==
    << Node("n1", Some(Str_Ac), Some(Str_Eng), Some(Str_SF), Some(2), Some(DateIso(2)),
            Some(Str_mailA)),
       Node("n2", Some(Str_xAC), Some(Str_DevEng), Some(Str_xsfo), Some(1), Some(DateIso(4)), Null),
       Node("n3", Null, Null, Null, Null, Null, Some(Str_mailSF)),
       Node("n4", Some(Str_empty), Some(Str_dev), Some(Str_LA), Some(0), Some(DateBad), Null) >>

\* the last edge has an endpoint that is not a node of the graph; the two
\* edges of n4 come lighter first
EdgesA ==
    << Edge("n3", "n4", 1), Edge("n1", "n2", 3), Edge("n2", "n4", 2), Edge("n1", "n9", 1) >>

NodesB ==
    << Node("m1", Some(Str_B), Some(Str_Eng), Some(Str_empty), Some(1), Some(DateEmpty),
            Some(Str_mailA)),
       Node("m2", Some(Str_B), Null, Some(Str_SF), Null, Some(DateIso(3)), Null),
       Node("m3", Null, Null, Null, Some(0), Null, Null) >>

EdgesB == << Edge("m1", "m2", 2) >>

\* Larger files, with more companies and position keywords than FilterPanel
\* lists: "fileC" has 22 connections, each with a company and a keyword of
\* its own; "fileD" has 24 with repeated companies and keywords; "fileE" is
\* small, with ties, an empty and an absent company and a short keyword.
RankingFiles == {"fileC", "fileD", "fileE"}

Letters ==
    << "a", "b", "c", "d", "e", "f", "g", "h", "i", "j", "k", "l",
       "m", "n", "o", "p", "q", "r", "s", "t", "u", "v", "w", "x" >>

NodeNames ==
    << "g01", "g02", "g03", "g04", "g05", "g06", "g07", "g08", "g09", "g10", "g11", "g12",
       "g13", "g14", "g15", "g16", "g17", "g18", "g19", "g20", "g21", "g22", "g23", "g24" >>

\* the i-th company name; 0 is the empty string
CompanyName(i) == IF i = 0 THEN Str_empty ELSE <<"C", Letters[i]>>

\* the i-th keyword; 0 is a keyword of two characters
KeywordName(i) == IF i = 0 THEN <<"q", "a">> ELSE <<"K", Letters[i], "w">>

\* a position title made of the keywords
RECURSIVE TitleOf(_)
TitleOf(kws) ==
    IF kws = <<>> THEN <<>>
    ELSE IF Len(kws) = 1 THEN KeywordName(kws[1])
    ELSE KeywordName(kws[1]) \o <<" ", "-", " ">> \o TitleOf(Tail(kws))

\* the company index of each row (-1: no company) and the keywords of its title
RowsOf(file) ==
    IF file = "fileC" THEN [i \in 1..22 |-> [company |-> i, keywords |-> <<i>>]]
    ELSE IF file = "fileD"
    THEN [i \in 1..24 |->
            [company |-> IF i <= 21 THEN i ELSE IF i = 24 THEN 21 ELSE 22,
             keywords |-> IF i <= 3 THEN <<i, 20 - i>> ELSE <<((i - 1) % 17) + 1>>]]
    ELSE << [company |-> 2, keywords |-> <<1, 1>>],
            [company |-> 1, keywords |-> <<0>>],
            [company |-> 1, keywords |-> <<2, 1>>],
            [company |-> 2, keywords |-> <<>>],
            [company |-> 3, keywords |-> <<3, 2>>],
            [company |-> 0, keywords |-> <<3>>],
            [company |-> -1, keywords |-> <<0, 3>>] >>

NodesOfRows(rows) ==
    [i \in 1..Len(rows) |->
        Node(NodeNames[i],
             IF rows[i].company = -1 THEN Null ELSE Some(CompanyName(rows[i].company)),
             IF rows[i].keywords = <<>> THEN Null ELSE Some(TitleOf(rows[i].keywords)),
             Null, Some(0), Null, Null)]

\* GraphData returned by GET /graph for an upload of the file
GraphOf(file, upload) ==
    IF file = "fileA"
    THEN [nodes |-> NodesA, edges |-> EdgesA, upload |-> upload]
    ELSE IF file = "fileB"
    THEN [nodes |-> NodesB, edges |-> EdgesB, upload |-> upload]
    ELSE [nodes |-> NodesOfRows(RowsOf(file)), edges |-> <<>>, upload |-> upload]


----------------------------------------------------------------------------
(* FilterPanel *)

\* first-encounter order of the keys of a Map filled by items
RECURSIVE mapKeys(_)
mapKeys(items) ==
    IF items = <<>> THEN <<>>
    ELSE LET front == mapKeys(SubSeq(items, 1, Len(items) - 1))
             last == items[Len(items)]
         IN  IF listIncludes(front, last) THEN front ELSE Append(front, last)

mapCount(items, key) == Cardinality({i \in 1..Len(items) : items[i] = key})

\* a descending sort that puts a later entry before earlier ones of its count
RECURSIVE sortByCount_unstable(_)
sortByCount_unstable(entries) ==
    IF entries = <<>> THEN <<>>
    ELSE LET front == sortByCount_unstable(SubSeq(entries, 1, Len(entries) - 1))
             last == entries[Len(entries)]
             keep == Cardinality({i \in 1..Len(front) : front[i].count > last.count})
         IN  SubSeq(front, 1, keep) \o <<last>> \o SubSeq(front, keep + 1, Len(front))

\* Array.prototype.sort((a, b) => b.count - a.count): stable, descending
RECURSIVE sortByCount(_)
sortByCount(entries) ==
    IF entries = <<>> THEN <<>>
    ELSE LET front == sortByCount(SubSeq(entries, 1, Len(entries) - 1))
             last == entries[Len(entries)]
             keep == Cardinality({i \in 1..Len(front) : front[i].count >= last.count})
         IN  SubSeq(front, 1, keep) \o <<last>> \o SubSeq(front, keep + 1, Len(front))

slice(s, n) == SubSeq(s, 1, IF Len(s) < n THEN Len(s) ELSE n)

\* MetricsEngine: the degree of a node is the number of edges that end in
\* it, 0 for an isolated node
degreeIn(g, id) ==
    Cardinality({i \in 1..Len(g.edges) : g.edges[i].source = id \/ g.edges[i].target = id})

\* MetricsEngine: betweenness in hundredths, the share of the shortest paths
\* between the other nodes that pass through the node. "fileA" is the chain
\* n1 - n2 - n4 - n3; no other file has a path of two edges.
betweennessIn(file, id) ==
    IF file = "fileA" /\ id \in {"n2", "n4"} THEN 67 ELSE 0

\* GraphMetrics returned by GET /graph together with the graph; the two
\* leaderboards are the nodes sorted descending by degree and by betweenness
MetricsOf(file, upload) ==
    LET g == GraphOf(file, upload)
        byDegree == sortByCount([i \in 1..Len(g.nodes) |->
                        [name |-> i, count |-> degreeIn(g, g.nodes[i].id)]])
        byBetweenness == sortByCount([i \in 1..Len(g.nodes) |->
                        [name |-> i, count |-> betweennessIn(file, g.nodes[i].id)]])
    IN  [upload |-> upload, total_nodes |-> Len(g.nodes), total_edges |-> Len(g.edges),
         top_connectors |->
             [k \in 1..Len(g.nodes) |->
                 [id |-> g.nodes[byDegree[k].name].id, degree |-> byDegree[k].count]],
         centrality_leaders |->
             [k \in 1..Len(g.nodes) |->
                 [id |-> g.nodes[byBetweenness[k].name].id,
                  betweenness |-> byBetweenness[k].count]]]

ranking(items, limit) ==
    LET keys == mapKeys(items) IN
    slice(sortByCount([i \in 1..Len(keys) |->
                          [name |-> keys[i], count |-> mapCount(items, keys[i])]]), limit)

CompanyLimit == 20

PositionLimit == 15

\* the company of every node that has a non-empty one, in node order
companyItems(nodes) ==
    LET having == SelectSeq(nodes, LAMBDA n : StrTruthy(n.company)) IN
    [i \in 1..Len(having) |-> Val(having[i].company)]

availableCompanies(gd) ==
    IF IsNull(gd) THEN <<>> ELSE ranking(companyItems(Val(gd).nodes), CompanyLimit)

IsSeparator(c) == c \in {" ", ",", "/", "-"}

\* String.prototype.split(/[\s,/-]+/) from position i on, cur being the piece read so far
RECURSIVE splitFrom(_, _, _)
splitFrom(s, i, cur) ==
    IF i > Len(s) THEN <<cur>>
    ELSE IF IsSeparator(s[i])
         THEN IF i > 1 /\ IsSeparator(s[i - 1])
              THEN splitFrom(s, i + 1, <<>>)
              ELSE <<cur>> \o splitFrom(s, i + 1, <<>>)
         ELSE splitFrom(s, i + 1, Append(cur, s[i]))

\* (node.data.position || '').toLowerCase().split(...) keeping kw.length > 2
keywordsOf(node) ==
    LET position == IF StrTruthy(node.position) THEN Val(node.position) ELSE <<>> IN
    SelectSeq(splitFrom(toLowerCase(position), 1, <<>>), LAMBDA kw : Len(kw) > 2)

RECURSIVE positionItems(_)
positionItems(nodes) ==
    IF nodes = <<>> THEN <<>>
    ELSE positionItems(SubSeq(nodes, 1, Len(nodes) - 1)) \o keywordsOf(nodes[Len(nodes)])

availablePositions(gd) ==
    IF IsNull(gd) THEN <<>> ELSE ranking(positionItems(Val(gd).nodes), PositionLimit)

\* a toggle that adds the item whether the list has it or not
toggle_adds(current, item) ==
    LET list == IF IsNull(current) THEN <<>> ELSE Val(current) IN
    Append(list, item)

\* one step of the toggle handlers: remove the item when listed, append it otherwise
toggle(current, item) ==
    LET list == IF IsNull(current) THEN <<>> ELSE Val(current) IN
    IF listIncludes(list, item)
    THEN SelectSeq(list, LAMBDA c : c # item)
    ELSE Append(list, item)

\* Object.values(filters).some(value => Array.isArray(value) ? value.length > 0 : value)
hasActiveFilters(f) ==
    \/ ~IsNull(f.companies) /\ Len(Val(f.companies)) > 0
    \/ ~IsNull(f.positions) /\ Len(Val(f.positions)) > 0
    \/ StrTruthy(f.location)
    \/ NumTruthy(f.min_degree)
    \/ DateTruthy(f.date_from)
    \/ DateTruthy(f.date_to)

----------------------------------------------------------------------------
(* Component state at mount *)

\* the name of the second view: 'dashboard' in the "memo" revision, 'graph' in the "state" one
DashboardView == IF appVersion = "memo" THEN "dashboard" ELSE "graph"

\* SettingsPanel and MetricsPanel are rendered as 'fixed inset-0 ... z-50' overlays
PanelOpen == showSettings \/ (showMetrics /\ ~IsNull(metrics))

\* the dashboard is rendered and no overlay lies over its controls
OnDashboard == currentView = DashboardView /\ ~PanelOpen

QueryBarInit == [query |-> <<>>, isLoading |-> FALSE, lastExplanation |-> <<>>]

\* The weights and the threshold are held in tenths (3 is 30, 0.5 is 5);
\* similarity_threshold is a whole number of percent.
InferenceDefaults ==
    [company_weight |-> 30, school_weight |-> 20, location_weight |-> 10,
     position_weight |-> 10, threshold |-> 20, fuzzy_matching |-> TRUE,
     similarity_threshold |-> 85]

UploadFormInit ==
    [file |-> Null, csvPreview |-> Null, columnMapping |-> <<>>,
     inferenceSettings |-> InferenceDefaults,
     isLoading |-> FALSE, step |-> "upload"]

ConnectionsListInit ==
    [searchTerm |-> <<>>, sortField |-> "degree", sortOrder |-> "desc", expandedId |-> Null]

SettingsPanelInit ==
    [settings |-> InferenceDefaults,
     privacySettings |-> [mask_emails |-> TRUE, show_raw_data |-> FALSE,
                          local_processing |-> TRUE]]

NodeDetailInit == [showEmail |-> FALSE, targetNodeId |-> Null, subgraphDepth |-> 1]

NoPending == [reads |-> {}, build |-> Null, queries |-> {}, paths |-> {}, subgraphs |-> {}]

NoBackend == [upload |-> 0, file |-> Null]

NothingObserved == [last |-> "none", build |-> "idle", app |-> <<>>]

----------------------------------------------------------------------------
(* App handlers: the state they write *)

\* a handleFilterChange that leaves a held query result in place
handleFilterChange_keepsQuery(newFilters) ==
    /\ filters' = newFilters
    /\ IF appVersion = "memo"
       THEN UNCHANGED <<queryResult, filteredDataState>>
       ELSE /\ filteredDataState' =
                  IF ~IsNull(graphData)
                  THEN Some(applyFilters(Val(graphData), newFilters))
                  ELSE filteredDataState
            /\ UNCHANGED queryResult
    /\ UNCHANGED <<graphData, metrics, pathHighlight, subgraphMode>>

\* handleFilterChange
handleFilterChange(newFilters) ==
    /\ filters' = newFilters
    /\ IF appVersion = "memo"
       THEN /\ queryResult' = Null
            /\ UNCHANGED filteredDataState
       ELSE /\ filteredDataState' =
                  IF ~IsNull(graphData)
                  THEN Some(applyFilters(Val(graphData), newFilters))
                  ELSE filteredDataState
            /\ UNCHANGED queryResult
    /\ UNCHANGED <<graphData, metrics, pathHighlight, subgraphMode>>

\* handleQueryResult; result.graph and result.filter may be missing
handleQueryResult(result) ==
    /\ IF appVersion = "memo"
       THEN /\ queryResult' = result.graph
            /\ filters' = (IF IsNull(result.filter) THEN EmptyFilters ELSE Val(result.filter))
            /\ UNCHANGED filteredDataState
       ELSE /\ IF ~IsNull(result.graph)
               THEN /\ filteredDataState' = result.graph
                    /\ filters' = (IF IsNull(result.filter) THEN EmptyFilters ELSE Val(result.filter))
               ELSE UNCHANGED <<filteredDataState, filters>>
            /\ UNCHANGED queryResult
    /\ UNCHANGED <<graphData, metrics, pathHighlight, subgraphMode>>

\* a handleGraphBuilt that publishes the graph without its metrics
handleGraphBuilt_keepsMetrics(data, metricsData) ==
    /\ graphData' = Some(data)
    /\ metrics' = metrics
    /\ IF appVersion = "memo"
       THEN /\ filters' = EmptyFilters
            /\ queryResult' = Null
            /\ UNCHANGED filteredDataState
       ELSE /\ filteredDataState' = Some(data)
            /\ UNCHANGED <<filters, queryResult>>
    /\ UNCHANGED <<pathHighlight, subgraphMode>>

\* handleGraphBuilt, the state it writes apart from currentView
handleGraphBuilt(data, metricsData) ==
    /\ graphData' = Some(data)
    /\ metrics' = Some(metricsData)
    /\ IF appVersion = "memo"
       THEN /\ filters' = EmptyFilters
            /\ queryResult' = Null
            /\ UNCHANGED filteredDataState
       ELSE /\ filteredDataState' = Some(data)
            /\ UNCHANGED <<filters, queryResult>>
    /\ UNCHANGED <<pathHighlight, subgraphMode>>

\* onShowPath: setPathHighlight in the "state" revision, not passed in the "memo" one
onShowPath(path) ==
    /\ pathHighlight' = (IF appVersion = "memo" THEN pathHighlight ELSE Some(path))
    /\ UNCHANGED <<graphData, metrics, filters, queryResult, filteredDataState, subgraphMode>>

\* an onShowSubgraph that installs the subgraph as the graph itself
onShowSubgraph_intoGraph(subgraph) ==
    /\ graphData' = Some([Val(graphData) EXCEPT !.nodes = subgraph.nodes, !.edges = subgraph.edges])
    /\ UNCHANGED <<metrics, filters, queryResult, filteredDataState, pathHighlight, subgraphMode>>

\* onShowSubgraph: setFilteredData and setSubgraphMode in the "state" revision
onShowSubgraph(subgraph) ==
    /\ IF appVersion = "memo"
       THEN UNCHANGED <<filteredDataState, subgraphMode>>
       ELSE /\ filteredDataState' = Some(subgraph)
            /\ subgraphMode' = TRUE
    /\ UNCHANGED <<graphData, metrics, filters, queryResult, pathHighlight>>

dataVars == <<graphData, metrics, filters, queryResult, filteredDataState, pathHighlight, subgraphMode>>

\* what a build must leave alone when it fails
AppSnapshot == <<graphData, metrics, filters, queryResult, filteredDataState, currentView>>

Observe(last) == observed' = [observed EXCEPT !.last = last]

----------------------------------------------------------------------------
(* FilterPanel actions; the panel is rendered on the dashboard only *)

FilterFrame ==
    /\ Observe("none")
    /\ UNCHANGED <<appVersion, connectionsList, settingsPanel, currentView, graphData, metrics, selectedNode,
                   showSettings, showMetrics, pathHighlight, subgraphMode,
                   queryBar, uploadForm, nodeDetail, pending, backend>>

LocationInputs == {Str_empty, Str_Sf}

MinDegreeInputs == {0, 1, 2}

DateFromInputs == {DateEmpty, DateIso(2), DateIso(3)}

DateToInputs == {DateEmpty, DateIso(3), DateIso(4)}

handleCompanyToggle(company) ==
    /\ OnDashboard
    /\ handleFilterChange([filters EXCEPT !.companies = Some(toggle(filters.companies, company))])
    /\ FilterFrame

handlePositionToggle(position) ==
    /\ OnDashboard
    /\ handleFilterChange([filters EXCEPT !.positions = Some(toggle(filters.positions, position))])
    /\ FilterFrame

MinDegreeChange(value) ==
    /\ OnDashboard
    /\ handleFilterChange([filters EXCEPT !.min_degree = Some(value)])
    /\ FilterFrame

LocationChange(value) ==
    /\ OnDashboard
    /\ handleFilterChange([filters EXCEPT !.location = Some(value)])
    /\ FilterFrame

DateFromChange(value) ==
    /\ OnDashboard
    /\ handleFilterChange([filters EXCEPT !.date_from = Some(value)])
    /\ FilterFrame

DateToChange(value) ==
    /\ OnDashboard
    /\ handleFilterChange([filters EXCEPT !.date_to = Some(value)])
    /\ FilterFrame

clearAllFilters ==
    /\ OnDashboard
    /\ hasActiveFilters(filters)
    /\ handleFilterChange(EmptyFilters)
    /\ FilterFrame

CompanyToggleAny ==
    \E i \in 1..Len(availableCompanies(graphData)) :
        handleCompanyToggle(availableCompanies(graphData)[i].name)

PositionToggleAny ==
    \E i \in 1..Len(availablePositions(graphData)) :
        handlePositionToggle(availablePositions(graphData)[i].name)

----------------------------------------------------------------------------
(* The filter on its own: an App that has just built a graph, driven by    *)
(* every control of FilterPanel.                                           *)

InitOn(files) ==
    /\ appVersion \in {"memo", "state"}
    /\ \E file \in files :
          /\ graphData = Some(GraphOf(file, 1))
          /\ metrics = Some(MetricsOf(file, 1))
          /\ filteredDataState = (IF appVersion = "memo" THEN Null ELSE Some(GraphOf(file, 1)))
          /\ backend = [upload |-> 1, file |-> Some(file)]
          /\ observed = NothingObserved
    /\ currentView = DashboardView
    /\ filters = EmptyFilters
    /\ queryResult = Null
    /\ selectedNode = Null
    /\ showSettings = FALSE
    /\ showMetrics = FALSE
    /\ pathHighlight = Null
    /\ subgraphMode = FALSE
    /\ queryBar = QueryBarInit
    /\ uploadForm = UploadFormInit
    /\ nodeDetail = NodeDetailInit
    /\ settingsPanel = SettingsPanelInit
    /\ connectionsList = ConnectionsListInit
    /\ pending = NoPending

InitFilter == InitOn(Files)

NextFilter ==
    \/ CompanyToggleAny
    \/ PositionToggleAny
    \/ \E v \in MinDegreeInputs : MinDegreeChange(v)
    \/ \E v \in LocationInputs : LocationChange(v)
    \/ \E v \in DateFromInputs : DateFromChange(v)
    \/ \E v \in DateToInputs : DateToChange(v)
    \/ clearAllFilters

SpecFilter == InitFilter /\ [][NextFilter]_vars

----------------------------------------------------------------------------
(* The lists of FilterPanel for graphs larger than the lists: the first    *)
(* and the last checkbox of each list are toggled.                         *)

CompanyToggleEnds ==
    \E i \in {1, Len(availableCompanies(graphData))} :
        /\ i >= 1
        /\ handleCompanyToggle(availableCompanies(graphData)[i].name)

PositionToggleEnds ==
    \E i \in {1, Len(availablePositions(graphData))} :
        /\ i >= 1
        /\ handlePositionToggle(availablePositions(graphData)[i].name)

InitRanking == InitOn(Files \cup RankingFiles)

NextRanking ==
    \/ CompanyToggleEnds
    \/ PositionToggleEnds
    \/ clearAllFilters

SpecRanking == InitRanking /\ [][NextRanking]_vars

----------------------------------------------------------------------------
(* The server behind services/api.ts *)

MaxUploads == 2

\* requests of QueryBar and NodeDetail that may be outstanding together
MaxRequests == 1

\* the graph the server holds
BackendGraph == GraphOf(Val(backend.file), backend.upload)

\* one more hop around the node ids in reached
expand(g, reached) ==
    reached \cup {id \in NodeIds(g.nodes) :
                    \E e \in Range(g.edges) :
                        \/ e.source \in reached /\ e.target = id
                        \/ e.target \in reached /\ e.source = id}

RECURSIVE kHop(_, _, _)
kHop(g, reached, depth) ==
    IF depth = 0 THEN reached ELSE kHop(g, expand(g, reached), depth - 1)

\* GET /subgraph/{nodeId}?depth=: the induced subgraph within depth hops
subgraphOf(g, nodeId, depth) ==
    LET ids == kHop(g, {nodeId}, depth) IN
    [nodes |-> SelectSeq(g.nodes, LAMBDA n : n.id \in ids),
     edges |-> SelectSeq(g.edges, LAMBDA e : e.source \in ids /\ e.target \in ids)]

\* GET /shortest-path/{source}/{target}: exists and the number of hops
shortestPathOf(g, sourceId, targetId) ==
    LET n == Len(g.nodes)
        hops == {k \in 0..n : targetId \in kHop(g, {sourceId}, k)}
    IN  IF hops = {} THEN [exists |-> FALSE, length |-> 0]
        ELSE [exists |-> TRUE, length |-> CHOOSE k \in hops : \A j \in hops : k <= j]

\* the filters the language model may return with a query (or none at all)
LLMFilters ==
    { Null,
      Some([EmptyFilters EXCEPT !.companies = Some(<<Str_B>>)]) }

Str_explain == <<"o", "k">>

\* POST /query: the filter, its explanation and the filtered graph
queryResultOf(g, filter) ==
    [filter |-> filter,
     explain |-> Str_explain,
     graph |-> Some(memoFilter(g, IF IsNull(filter) THEN EmptyFilters ELSE Val(filter)))]

----------------------------------------------------------------------------
(* Mounting and unmounting with currentView *)

\* 'upload' -> dashboard: UploadForm goes, its FileReader callbacks reach no
\* state any more; QueryBar and NodeDetail are created
EnterDashboard ==
    /\ currentView' = DashboardView
    /\ uploadForm' = UploadFormInit
    /\ queryBar' = QueryBarInit
    /\ nodeDetail' = NodeDetailInit

\* dashboard -> 'upload': QueryBar, NodeDetail and the list go, UploadForm is created
EnterUpload ==
    /\ currentView' = "upload"
    /\ connectionsList' = ConnectionsListInit
    /\ uploadForm' = UploadFormInit
    /\ queryBar' = QueryBarInit
    /\ nodeDetail' = NodeDetailInit

\* the requests of an unmounted QueryBar still settle, but set no QueryBar state
orphaned(queries) == {[q EXCEPT !.live = FALSE] : q \in queries}

----------------------------------------------------------------------------
(* App header and list *)

\* onClick={() => setCurrentView('upload')}
NewUpload ==
    /\ OnDashboard
    /\ EnterUpload
    /\ pending' = [pending EXCEPT !.queries = orphaned(pending.queries)]
    /\ Observe("none")
    /\ UNCHANGED <<appVersion, settingsPanel, selectedNode, showSettings, showMetrics, backend>>
    /\ UNCHANGED dataVars

\* setShowMetrics(true) in the "memo" revision, setShowMetrics(!showMetrics) in the "state" one
MetricsButton ==
    /\ OnDashboard
    /\ showMetrics' = (IF appVersion = "memo" THEN TRUE ELSE ~showMetrics)
    /\ Observe("none")
    /\ UNCHANGED <<appVersion, connectionsList, settingsPanel, currentView, selectedNode, showSettings,
                   queryBar, uploadForm, nodeDetail, pending, backend>>
    /\ UNCHANGED dataVars

SettingsButton ==
    /\ OnDashboard
    /\ showSettings' = (IF appVersion = "memo" THEN TRUE ELSE ~showSettings)
    /\ settingsPanel' = SettingsPanelInit
    /\ Observe("none")
    /\ UNCHANGED <<appVersion, connectionsList, currentView, selectedNode, showMetrics,
                   queryBar, uploadForm, nodeDetail, pending, backend>>
    /\ UNCHANGED dataVars

\* MetricsPanel onClose
CloseMetrics ==
    /\ showMetrics /\ ~IsNull(metrics)
    /\ showMetrics' = FALSE
    /\ Observe("none")
    /\ UNCHANGED <<appVersion, connectionsList, settingsPanel, currentView, selectedNode, showSettings,
                   queryBar, uploadForm, nodeDetail, pending, backend>>
    /\ UNCHANGED dataVars

\* SettingsPanel onClose
CloseSettings ==
    /\ showSettings
    /\ showSettings' = FALSE
    /\ settingsPanel' = SettingsPanelInit
    /\ Observe("none")
    /\ UNCHANGED <<appVersion, connectionsList, currentView, selectedNode, showMetrics,
                   queryBar, uploadForm, nodeDetail, pending, backend>>
    /\ UNCHANGED dataVars

\* toggleExpand
toggleExpand(id) ==
    [connectionsList EXCEPT !.expandedId = IF @ = Some(id) THEN Null ELSE Some(id)]

\* a click on a row of the list: onNodeSelect(node.data); toggleExpand(node.data.id).
\* In the "state" revision a tap on a node of the graph view: onNodeSelect only
SelectNode(node) ==
    /\ OnDashboard
    /\ ~IsNull(filteredData)
    /\ node \in Range(Val(filteredData).nodes)
    /\ selectedNode' = Some(node)
    /\ connectionsList' = (IF appVersion = "memo" THEN toggleExpand(node.id) ELSE connectionsList)
    /\ Observe("none")
    /\ UNCHANGED <<appVersion, settingsPanel, currentView, showSettings, showMetrics,
                   queryBar, uploadForm, nodeDetail, pending, backend>>
    /\ UNCHANGED dataVars

\* onNodeSelect(null): a tap on the background of GraphView ("state" revision)
DeselectNode ==
    /\ OnDashboard
    /\ appVersion = "state"
    /\ ~IsNull(filteredData)
    /\ ~IsNull(selectedNode)
    /\ selectedNode' = Null
    /\ Observe("none")
    /\ UNCHANGED <<appVersion, connectionsList, settingsPanel, currentView, showSettings, showMetrics,
                   queryBar, uploadForm, nodeDetail, pending, backend>>
    /\ UNCHANGED dataVars

\* 'Show Full Graph' of the action bar ("state" revision)
ShowFullGraph ==
    /\ OnDashboard
    /\ appVersion = "state"
    /\ subgraphMode
    /\ filteredDataState' = graphData
    /\ subgraphMode' = FALSE
    /\ Observe("none")
    /\ UNCHANGED <<appVersion, connectionsList, settingsPanel, currentView, selectedNode, showSettings, showMetrics,
                   queryBar, uploadForm, nodeDetail, pending, backend>>
    /\ UNCHANGED <<graphData, metrics, filters, queryResult, pathHighlight>>

\* 'Clear' of the action bar ("state" revision)
ClearHighlight ==
    /\ OnDashboard
    /\ appVersion = "state"
    /\ ~IsNull(pathHighlight) \/ subgraphMode
    /\ pathHighlight' = Null
    /\ subgraphMode' = FALSE
    /\ filteredDataState' = graphData
    /\ Observe("none")
    /\ UNCHANGED <<appVersion, connectionsList, settingsPanel, currentView, selectedNode, showSettings, showMetrics,
                   queryBar, uploadForm, nodeDetail, pending, backend>>
    /\ UNCHANGED <<graphData, metrics, filters, queryResult>>

----------------------------------------------------------------------------
(* UploadForm *)

Str_Company == <<"C", "o", "m", "p", "a", "n", "y">>

Str_company == <<"c", "o", "m", "p", "a", "n", "y">>

Str_Notes == <<"N", "o", "t", "e", "s">>

\* rows[0] of the preview: the header row of each file
HeadersOf(file) == IF file = "fileA" THEN <<Str_Company>> ELSE <<Str_Notes>>

\* the auto-suggested mapping, column index -> canonical field; of the
\* else-if chain only the 'company' branch is met by these headers
suggestionsOf(file) ==
    LET headers == HeadersOf(file)
        hit == {i \in 1..Len(headers) : includes(toLowerCase(headers[i]), Str_company)}
    IN  [i \in {j - 1 : j \in hit} |-> "company"]

canonicalFields ==
    {"first_name", "last_name", "email", "company", "position", "location", "school",
     "connected_on"}

\* the values the column select offers here: 'Skip this column' and one canonical field
MappingInputs == {"", "company"}

UploadFrame ==
    /\ UNCHANGED <<appVersion, connectionsList, settingsPanel, currentView, selectedNode, showSettings, showMetrics,
                   queryBar, nodeDetail, backend>>
    /\ UNCHANGED dataVars

\* onDrop: setFile and start a FileReader; the dropzone is rendered in step 'upload'
onDrop(file) ==
    /\ currentView = "upload"
    /\ uploadForm.step = "upload"
    /\ uploadForm' = [uploadForm EXCEPT !.file = Some(file)]
    /\ pending' = [pending EXCEPT !.reads = @ \cup {file}]
    /\ Observe("none")
    /\ UploadFrame

\* a reader.onload that takes the wizard straight to its last step
readerOnload_toSettings(file) ==
    /\ file \in pending.reads
    /\ uploadForm' = [uploadForm EXCEPT !.csvPreview = Some(file),
                                        !.columnMapping = suggestionsOf(file),
                                        !.step = "settings"]
    /\ pending' = [pending EXCEPT !.reads = @ \ {file}]
    /\ Observe("none")
    /\ UploadFrame

\* reader.onload of parseCSVPreview
readerOnload(file) ==
    /\ file \in pending.reads
    /\ uploadForm' = [uploadForm EXCEPT !.csvPreview = Some(file),
                                        !.columnMapping = suggestionsOf(file),
                                        !.step = "mapping"]
    /\ pending' = [pending EXCEPT !.reads = @ \ {file}]
    /\ Observe("none")
    /\ UploadFrame

\* the column select: setColumnMapping(prev => ({...prev, [index]: value}))
MappingSelect(index, value) ==
    /\ currentView = "upload"
    /\ uploadForm.step = "mapping"
    /\ ~IsNull(uploadForm.csvPreview)
    /\ index \in {j - 1 : j \in 1..Len(HeadersOf(Val(uploadForm.csvPreview)))}
    /\ uploadForm' = [uploadForm EXCEPT !.columnMapping =
                         [k \in (DOMAIN uploadForm.columnMapping) \cup {index} |->
                             IF k = index THEN value ELSE uploadForm.columnMapping[k]]]
    /\ Observe("none")
    /\ UNCHANGED pending
    /\ UploadFrame

\* 'Back' of the mapping step
MappingBack ==
    /\ currentView = "upload"
    /\ uploadForm.step = "mapping"
    /\ ~IsNull(uploadForm.csvPreview)
    /\ uploadForm' = [uploadForm EXCEPT !.step = "upload"]
    /\ Observe("none")
    /\ UNCHANGED pending
    /\ UploadFrame

\* 'Next: Configure Settings', disabled while Object.keys(columnMapping) is empty
MappingNext ==
    /\ currentView = "upload"
    /\ uploadForm.step = "mapping"
    /\ ~IsNull(uploadForm.csvPreview)
    /\ DOMAIN uploadForm.columnMapping # {}
    /\ uploadForm' = [uploadForm EXCEPT !.step = "settings"]
    /\ Observe("none")
    /\ UNCHANGED pending
    /\ UploadFrame

\* 'Back' of the settings step
SettingsBack ==
    /\ currentView = "upload"
    /\ uploadForm.step = "settings"
    /\ uploadForm' = [uploadForm EXCEPT !.step = "mapping"]
    /\ Observe("none")
    /\ UNCHANGED pending
    /\ UploadFrame

\* handleBuildGraph up to await uploadCSV(formData); the button is disabled while isLoading
handleBuildGraph ==
    /\ currentView = "upload"
    /\ uploadForm.step = "settings"
    /\ ~uploadForm.isLoading
    /\ ~IsNull(uploadForm.file)
    /\ uploadForm' = [uploadForm EXCEPT !.isLoading = TRUE]
    /\ pending' = [pending EXCEPT !.build =
                      Some([stage |-> "upload", phase |-> "sent",
                            file |-> Val(uploadForm.file),
                            mapping |-> uploadForm.columnMapping,
                            settings |-> uploadForm.inferenceSettings, status |-> "",
                            graph |-> Null, metrics |-> Null])]
    /\ observed' = [last |-> "none", build |-> "running", app |-> AppSnapshot]
    /\ UploadFrame

\* the server stores the upload and answers {status: 'ok'}
UploadAccepted ==
    /\ ~IsNull(pending.build)
    /\ Val(pending.build).stage = "upload" /\ Val(pending.build).phase = "sent"
    /\ backend.upload < MaxUploads
    /\ backend' = [upload |-> backend.upload + 1, file |-> Some(Val(pending.build).file)]
    /\ pending' = [pending EXCEPT !.build = Some([Val(@) EXCEPT !.phase = "answered", !.status = "ok"])]
    /\ Observe("none")
    /\ UNCHANGED <<appVersion, connectionsList, settingsPanel, currentView, selectedNode, showSettings, showMetrics,
                   queryBar, uploadForm, nodeDetail>>
    /\ UNCHANGED dataVars

\* the server answers with another status and keeps what it had
UploadRefused ==
    /\ ~IsNull(pending.build)
    /\ Val(pending.build).stage = "upload" /\ Val(pending.build).phase = "sent"
    /\ pending' = [pending EXCEPT !.build = Some([Val(@) EXCEPT !.phase = "answered", !.status = "error"])]
    /\ Observe("none")
    /\ UNCHANGED <<appVersion, connectionsList, settingsPanel, currentView, selectedNode, showSettings, showMetrics,
                   queryBar, uploadForm, nodeDetail, backend>>
    /\ UNCHANGED dataVars

\* uploadCSV resolves with status 'ok': handleBuildGraph goes on to await buildGraph()
UploadResolveOk ==
    /\ ~IsNull(pending.build)
    /\ Val(pending.build).stage = "upload" /\ Val(pending.build).phase = "answered"
    /\ Val(pending.build).status = "ok"
    /\ pending' = [pending EXCEPT !.build = Some([Val(@) EXCEPT !.stage = "graph", !.phase = "sent"])]
    /\ Observe("none")
    /\ UNCHANGED <<appVersion, connectionsList, settingsPanel, currentView, selectedNode, showSettings, showMetrics,
                   queryBar, uploadForm, nodeDetail, backend>>
    /\ UNCHANGED dataVars

\* uploadCSV resolves with another status: the if is skipped, finally runs
UploadResolveNotOk ==
    /\ ~IsNull(pending.build)
    /\ Val(pending.build).stage = "upload" /\ Val(pending.build).phase = "answered"
    /\ Val(pending.build).status # "ok"
    /\ pending' = [pending EXCEPT !.build = Null]
    /\ uploadForm' = [uploadForm EXCEPT !.isLoading = FALSE]
    /\ observed' = [last |-> "uploadNotOk", build |-> "idle", app |-> <<>>]
    /\ UNCHANGED <<appVersion, connectionsList, settingsPanel, currentView, selectedNode, showSettings, showMetrics,
                   queryBar, nodeDetail, backend>>
    /\ UNCHANGED dataVars

\* a catch without the finally: the form stays loading
BuildReject_staysLoading ==
    /\ ~IsNull(pending.build)
    /\ pending' = [pending EXCEPT !.build = Null]
    /\ uploadForm' = uploadForm
    /\ observed' = [last |-> "buildRejected", build |-> "idle", app |-> <<>>]
    /\ UNCHANGED <<appVersion, connectionsList, settingsPanel, currentView, selectedNode, showSettings, showMetrics,
                   queryBar, nodeDetail, backend>>
    /\ UNCHANGED dataVars

\* uploadCSV or buildGraph rejects (network error, timeout, error status): catch, finally
BuildReject ==
    /\ ~IsNull(pending.build)
    /\ pending' = [pending EXCEPT !.build = Null]
    /\ uploadForm' = [uploadForm EXCEPT !.isLoading = FALSE]
    /\ observed' = [last |-> "buildRejected", build |-> "idle", app |-> <<>>]
    /\ UNCHANGED <<appVersion, connectionsList, settingsPanel, currentView, selectedNode, showSettings, showMetrics,
                   queryBar, nodeDetail, backend>>
    /\ UNCHANGED dataVars

\* the server answers GET /graph with the graph and the metrics of what it holds
GraphAnswered ==
    /\ ~IsNull(pending.build)
    /\ Val(pending.build).stage = "graph" /\ Val(pending.build).phase = "sent"
    /\ ~IsNull(backend.file)
    /\ pending' = [pending EXCEPT !.build =
                      Some([Val(@) EXCEPT !.phase = "answered",
                                          !.graph = Some(BackendGraph),
                                          !.metrics = Some(MetricsOf(Val(backend.file), backend.upload))])]
    /\ Observe("none")
    /\ UNCHANGED <<appVersion, connectionsList, settingsPanel, currentView, selectedNode, showSettings, showMetrics,
                   queryBar, uploadForm, nodeDetail, backend>>
    /\ UNCHANGED dataVars

\* buildGraph resolves: onGraphBuilt(graphResult.graph, graphResult.metrics);
\* setCurrentView unmounts the form, so setIsLoading(false) reaches nothing
GraphResolve ==
    /\ ~IsNull(pending.build)
    /\ Val(pending.build).stage = "graph" /\ Val(pending.build).phase = "answered"
    /\ handleGraphBuilt(Val(Val(pending.build).graph), Val(Val(pending.build).metrics))
    /\ EnterDashboard
    /\ pending' = [pending EXCEPT !.build = Null, !.reads = {}]
    /\ observed' = [last |-> "buildSucceeded", build |-> "idle", app |-> <<>>]
    /\ UNCHANGED <<appVersion, connectionsList, settingsPanel, selectedNode, showSettings, showMetrics, backend>>

----------------------------------------------------------------------------
(* QueryBar *)

Outstanding ==
    Cardinality(pending.queries) + Cardinality(pending.paths) + Cardinality(pending.subgraphs)

IsSpace(c) == c = " "

\* String.prototype.trim
RECURSIVE trim(_)
trim(s) ==
    IF s = <<>> THEN s
    ELSE IF IsSpace(s[1]) THEN trim(Tail(s))
    ELSE IF IsSpace(s[Len(s)]) THEN trim(SubSeq(s, 1, Len(s) - 1))
    ELSE s

QueryInputs == {<<" ", "q">>}

QueryFrame ==
    /\ UNCHANGED <<appVersion, connectionsList, settingsPanel, currentView, selectedNode, showSettings, showMetrics,
                   uploadForm, nodeDetail, backend>>

\* onChange of the input and handleExampleClick, both disabled while isLoading
SetQuery(text) ==
    /\ OnDashboard
    /\ ~queryBar.isLoading
    /\ queryBar' = [queryBar EXCEPT !.query = text]
    /\ Observe("none")
    /\ UNCHANGED pending
    /\ QueryFrame
    /\ UNCHANGED dataVars

\* handleSubmit up to await queryGraph(query)
handleSubmit ==
    /\ OnDashboard
    /\ trim(queryBar.query) # <<>>
    /\ ~queryBar.isLoading
    /\ Outstanding < MaxRequests
    /\ queryBar' = [queryBar EXCEPT !.isLoading = TRUE]
    /\ pending' = [pending EXCEPT !.queries =
                      @ \cup {[live |-> TRUE, phase |-> "sent", result |-> Null,
                               graph |-> Val(graphData).upload]}]
    /\ Observe("none")
    /\ QueryFrame
    /\ UNCHANGED dataVars

\* the server answers POST /query against the graph it holds
QueryAnswered(q, filter) ==
    /\ q \in pending.queries
    /\ q.phase = "sent"
    /\ ~IsNull(backend.file)
    /\ pending' = [pending EXCEPT !.queries =
                      (@ \ {q}) \cup {[q EXCEPT !.phase = "answered",
                                                !.result = Some(queryResultOf(BackendGraph, filter))]}]
    /\ Observe("none")
    /\ UNCHANGED queryBar
    /\ QueryFrame
    /\ UNCHANGED dataVars

\* queryGraph resolves: onQueryResult(result); setLastExplanation; finally setIsLoading(false)
QueryResolve(q) ==
    /\ q \in pending.queries
    /\ q.phase = "answered"
    /\ handleQueryResult(Val(q.result))
    /\ queryBar' = IF q.live
                   THEN [queryBar EXCEPT !.lastExplanation = Val(q.result).explain,
                                         !.isLoading = FALSE]
                   ELSE queryBar
    /\ pending' = [pending EXCEPT !.queries = @ \ {q}]
    /\ Observe(IF q.graph = Val(graphData).upload THEN "queryResolved" ELSE "staleQueryResolved")
    /\ QueryFrame

\* a catch branch that also drops the explanation of the last answer
QueryReject_forgets(q) ==
    /\ q \in pending.queries
    /\ queryBar' = IF q.live THEN [queryBar EXCEPT !.isLoading = FALSE, !.lastExplanation = <<>>]
                   ELSE queryBar
    /\ pending' = [pending EXCEPT !.queries = @ \ {q}]
    /\ Observe("queryRejected")
    /\ QueryFrame
    /\ UNCHANGED dataVars

\* queryGraph rejects: catch (console.error, toast); finally setIsLoading(false)
QueryReject(q) ==
    /\ q \in pending.queries
    /\ queryBar' = IF q.live THEN [queryBar EXCEPT !.isLoading = FALSE] ELSE queryBar
    /\ pending' = [pending EXCEPT !.queries = @ \ {q}]
    /\ Observe("queryRejected")
    /\ QueryFrame
    /\ UNCHANGED dataVars

----------------------------------------------------------------------------
(* NodeDetail *)

\* the values of the options of the depth select
DepthInputs == {<<"1">>, <<"2">>, <<"3">>}

DigitOf(c) ==
    CASE c = "0" -> 0 [] c = "1" -> 1 [] c = "2" -> 2 [] c = "3" -> 3 [] c = "4" -> 4
      [] c = "5" -> 5 [] c = "6" -> 6 [] c = "7" -> 7 [] c = "8" -> 8 [] c = "9" -> 9
      [] OTHER -> NaN

\* the digits s begins with, read as a decimal number on top of acc
RECURSIVE digitsFrom(_, _)
digitsFrom(s, acc) ==
    IF s = <<>> \/ DigitOf(s[1]) = NaN THEN acc
    ELSE digitsFrom(Tail(s), 10 * acc + DigitOf(s[1]))

\* a parseInt that reads no digit
parseInt_noDigit(s) == NaN

\* parseInt of an unsigned decimal string: leading white space is skipped,
\* the leading digits are read, and without a leading digit it is NaN
parseInt(s) ==
    LET t == trim(s) IN
    IF t = <<>> \/ DigitOf(t[1]) = NaN THEN NaN ELSE digitsFrom(t, 0)

\* connectedNodes with the far end of an edge taken to be its target
connectedNodes_targetOnly(data, node) ==
    LET touching == SelectSeq(data.edges,
                        LAMBDA e : e.source = node.id \/ e.target = node.id)
        found == SelectSeq(touching,
                        LAMBDA e : \E n \in Range(data.nodes) : n.id = e.target)
        order == sortByCount([i \in 1..Len(found) |-> [name |-> i, count |-> found[i].weight]])
    IN  [k \in 1..Len(found) |->
            [node |-> found[order[k].name].target, weight |-> order[k].count]]

\* connectedNodes: the edges that touch the node, each with the node at its
\* other end when the data holds it, sorted by (b.weight || 0) - (a.weight || 0)
connectedNodes(data, node) ==
    LET touching == SelectSeq(data.edges,
                        LAMBDA e : e.source = node.id \/ e.target = node.id)
        connectedId(e) == IF e.source = node.id THEN e.target ELSE e.source
        found == SelectSeq(touching,
                        LAMBDA e : \E n \in Range(data.nodes) : n.id = connectedId(e))
        order == sortByCount([i \in 1..Len(found) |-> [name |-> i, count |-> found[i].weight]])
    IN  [k \in 1..Len(found) |->
            [node |-> connectedId(found[order[k].name]), weight |-> order[k].count]]

\* getNodeSubgraph(nodeId, depth = 1): the depth sent with the request
depthParam(depth) == IF IsNull(depth) THEN 1 ELSE Val(depth)

NodeFrame ==
    /\ UNCHANGED <<appVersion, connectionsList, settingsPanel, currentView, selectedNode, showSettings, showMetrics,
                   queryBar, uploadForm, backend>>

\* the target select: '' or a displayed node other than the selected one
SetTarget(target) ==
    /\ OnDashboard
    /\ ~IsNull(selectedNode)
    /\ \/ target = Null
       \/ /\ ~IsNull(target)
          /\ ~IsNull(filteredData)
          /\ Val(target) \in NodeIds(Val(filteredData).nodes) \ {Val(selectedNode).id}
    /\ nodeDetail' = [nodeDetail EXCEPT !.targetNodeId = target]
    /\ Observe("none")
    /\ UNCHANGED pending
    /\ NodeFrame
    /\ UNCHANGED dataVars

\* the eye button of the email row, rendered when node.email is there:
\* setShowEmail(!showEmail)
ToggleEmail ==
    /\ OnDashboard
    /\ ~IsNull(selectedNode)
    /\ StrTruthy(Val(selectedNode).email)
    /\ nodeDetail' = [nodeDetail EXCEPT !.showEmail = ~nodeDetail.showEmail]
    /\ Observe("none")
    /\ UNCHANGED pending
    /\ NodeFrame
    /\ UNCHANGED dataVars

\* the depth select: setSubgraphDepth(parseInt(e.target.value))
SetDepth(value) ==
    /\ OnDashboard
    /\ ~IsNull(selectedNode)
    /\ nodeDetail' = [nodeDetail EXCEPT !.subgraphDepth = parseInt(value)]
    /\ Observe("none")
    /\ UNCHANGED pending
    /\ NodeFrame
    /\ UNCHANGED dataVars

\* handleFindPath up to await getShortestPath(node.id, targetNodeId)
handleFindPath ==
    /\ OnDashboard
    /\ ~IsNull(nodeDetail.targetNodeId) /\ ~IsNull(selectedNode)
    /\ Outstanding < MaxRequests
    /\ pending' = [pending EXCEPT !.paths =
                      @ \cup {[source |-> Val(selectedNode).id,
                               target |-> Val(nodeDetail.targetNodeId),
                               phase |-> "sent", path |-> Null]}]
    /\ Observe("none")
    /\ UNCHANGED nodeDetail
    /\ NodeFrame
    /\ UNCHANGED dataVars

\* the server answers GET /shortest-path; an id it does not know is an error status
PathAnswered(r) ==
    /\ r \in pending.paths
    /\ r.phase = "sent"
    /\ ~IsNull(backend.file)
    /\ {r.source, r.target} \subseteq NodeIds(BackendGraph.nodes)
    /\ pending' = [pending EXCEPT !.paths =
                      (@ \ {r}) \cup {[r EXCEPT !.phase = "answered",
                                                !.path = Some(shortestPathOf(BackendGraph, r.source, r.target))]}]
    /\ Observe("none")
    /\ UNCHANGED nodeDetail
    /\ NodeFrame
    /\ UNCHANGED dataVars

\* a handleFindPath that shows whatever path object comes back
PathResolve_always(r) ==
    /\ r \in pending.paths
    /\ r.phase = "answered"
    /\ onShowPath(Val(r.path))
    /\ pending' = [pending EXCEPT !.paths = @ \ {r}]
    /\ Observe("pathResolved")
    /\ UNCHANGED nodeDetail
    /\ NodeFrame

\* getShortestPath resolves: onShowPath?.(pathData.path) when pathData.path.exists
PathResolve(r) ==
    /\ r \in pending.paths
    /\ r.phase = "answered"
    /\ IF Val(r.path).exists THEN onShowPath(Val(r.path)) ELSE UNCHANGED dataVars
    /\ pending' = [pending EXCEPT !.paths = @ \ {r}]
    /\ Observe("pathResolved")
    /\ UNCHANGED nodeDetail
    /\ NodeFrame

\* getShortestPath rejects: toast.error only
PathReject(r) ==
    /\ r \in pending.paths
    /\ pending' = [pending EXCEPT !.paths = @ \ {r}]
    /\ Observe("pathRejected")
    /\ UNCHANGED nodeDetail
    /\ NodeFrame
    /\ UNCHANGED dataVars

\* handleShowSubgraph up to await getNodeSubgraph(node.id, subgraphDepth)
handleShowSubgraph ==
    /\ OnDashboard
    /\ ~IsNull(selectedNode)
    /\ Outstanding < MaxRequests
    /\ pending' = [pending EXCEPT !.subgraphs =
                      @ \cup {[node |-> Val(selectedNode).id,
                               depth |-> depthParam(Some(nodeDetail.subgraphDepth)),
                               phase |-> "sent", subgraph |-> Null]}]
    /\ Observe("none")
    /\ UNCHANGED nodeDetail
    /\ NodeFrame
    /\ UNCHANGED dataVars

\* the server answers GET /subgraph; an id it does not know is an error status
SubgraphAnswered(r) ==
    /\ r \in pending.subgraphs
    /\ r.phase = "sent"
    /\ ~IsNull(backend.file)
    /\ r.node \in NodeIds(BackendGraph.nodes)
    /\ pending' = [pending EXCEPT !.subgraphs =
                      (@ \ {r}) \cup {[r EXCEPT !.phase = "answered",
                                                !.subgraph = Some(subgraphOf(BackendGraph, r.node, r.depth))]}]
    /\ Observe("none")
    /\ UNCHANGED nodeDetail
    /\ NodeFrame
    /\ UNCHANGED dataVars

\* getNodeSubgraph resolves: onShowSubgraph?.(subgraphData.subgraph)
SubgraphResolve(r) ==
    /\ r \in pending.subgraphs
    /\ r.phase = "answered"
    /\ onShowSubgraph(Val(r.subgraph))
    /\ pending' = [pending EXCEPT !.subgraphs = @ \ {r}]
    /\ Observe("subgraphResolved")
    /\ UNCHANGED nodeDetail
    /\ NodeFrame

\* getNodeSubgraph rejects: toast.error only
SubgraphReject(r) ==
    /\ r \in pending.subgraphs
    /\ pending' = [pending EXCEPT !.subgraphs = @ \ {r}]
    /\ Observe("subgraphRejected")
    /\ UNCHANGED nodeDetail
    /\ NodeFrame
    /\ UNCHANGED dataVars

----------------------------------------------------------------------------
(* ConnectionsList, the list of the "memo" revision's dashboard            *)

\* the label of a connection: '#' and its id, taken as one character
label(node) == <<"#", node.id>>

\* s?.toLowerCase().includes(t) for an optional string s
optIncludes(s, t) == ~IsNull(s) /\ includes(toLowerCase(Val(s)), t)

\* the predicate of data.nodes.filter: label, company, position, location
\* or email holds the search term, whatever the case
matchesSearch(node, searchTerm) ==
    LET searchLower == toLowerCase(searchTerm) IN
    \/ includes(toLowerCase(label(node)), searchLower)
    \/ optIncludes(node.company, searchLower)
    \/ optIncludes(node.position, searchLower)
    \/ optIncludes(node.location, searchLower)
    \/ optIncludes(node.email, searchLower)

\* the rows of the list, before they are sorted
filteredConnections(data, searchTerm) ==
    SelectSeq(data.nodes, LAMBDA node : matchesSearch(node, searchTerm))

\* Array.prototype.join(' '): absent entries count as ''
RECURSIVE join(_)
join(parts) ==
    IF parts = <<>> THEN <<>>
    ELSE IF Len(parts) = 1 THEN (IF IsNull(parts[1]) THEN <<>> ELSE Val(parts[1]))
    ELSE (IF IsNull(parts[1]) THEN <<>> ELSE Val(parts[1])) \o <<" ">> \o join(Tail(parts))

\* the predicate of the earlier ConnectionsList (part_002): the five fields
\* joined into one text, which is searched for the term
matchesNodeText(node, searchTerm) ==
    LET searchLower == toLowerCase(searchTerm)
        nodeText == toLowerCase(join(<<Some(label(node)), node.company, node.position,
                                      node.location, node.email>>))
    IN  includes(nodeText, searchLower)

\* the rows of the earlier list, before they are sorted
filteredByNodeText(data, searchTerm) ==
    SelectSeq(data.nodes, LAMBDA node : matchesNodeText(node, searchTerm))

\* a getConnectionCount that counts the edges leaving the node
getConnectionCount_source(data, nodeId) ==
    Cardinality({i \in 1..Len(data.edges) : data.edges[i].source = nodeId})

getConnectionCount(data, nodeId) ==
    Cardinality({i \in 1..Len(data.edges) :
                    data.edges[i].source = nodeId \/ data.edges[i].target = nodeId})

\* what is typed into the search box: nothing, letters, the first character
\* of every label, a space
SearchInputs == {<<>>, <<"s", "F">>, <<"#">>, <<" ">>}

SortFields == {"degree", "company"}

ListFrame ==
    /\ Observe("none")
    /\ UNCHANGED <<appVersion, settingsPanel, currentView, selectedNode, showSettings,
                   showMetrics, queryBar, uploadForm, nodeDetail, pending, backend>>
    /\ UNCHANGED dataVars

\* the search box, and the button that empties it
SetSearchTerm(value) ==
    /\ OnDashboard /\ appVersion = "memo"
    /\ ~IsNull(filteredData)
    /\ connectionsList' = [connectionsList EXCEPT !.searchTerm = value]
    /\ ListFrame

\* a sort button: the other order of the current field, or the new field descending
handleSort(field) ==
    /\ OnDashboard /\ appVersion = "memo"
    /\ ~IsNull(filteredData)
    /\ connectionsList' =
          IF connectionsList.sortField = field
          THEN [connectionsList EXCEPT
                   !.sortOrder = IF connectionsList.sortOrder = "asc" THEN "desc" ELSE "asc"]
          ELSE [connectionsList EXCEPT !.sortField = field, !.sortOrder = "desc"]
    /\ ListFrame

----------------------------------------------------------------------------
(* Inference settings: the sliders and checkboxes of UploadForm's settings *)
(* step and of SettingsPanel.                                              *)

\* a parseFloat that drops the fraction
parseFloat_whole(s) ==
    LET t == trim(s) IN
    IF t = <<>> \/ DigitOf(t[1]) = NaN THEN NaN ELSE 10 * digitsFrom(t, 0)

\* what follows the leading digits of s
RECURSIVE afterDigits(_)
afterDigits(s) ==
    IF s = <<>> \/ DigitOf(s[1]) = NaN THEN s ELSE afterDigits(Tail(s))

\* parseFloat of an unsigned decimal string with at most one decimal place,
\* in tenths; NaN without a leading digit
parseFloat(s) ==
    LET t == trim(s)
        rest == afterDigits(t)
    IN  IF t = <<>> \/ DigitOf(t[1]) = NaN THEN NaN
        ELSE IF Len(rest) >= 2 /\ rest[1] = "." /\ DigitOf(rest[2]) # NaN
             THEN 10 * digitsFrom(t, 0) + DigitOf(rest[2])
             ELSE 10 * digitsFrom(t, 0)

WeightKeys == {"company_weight", "school_weight", "location_weight", "position_weight"}

\* values of the weight sliders (min 0, max 5, step 0.5): both ends and a half
WeightInputs == {<<"0">>, <<"2", ".", "5">>, <<"5">>}

\* values of the threshold slider (min 0.5, max 10, step 0.5): both ends
ThresholdInputs == {<<"0", ".", "5">>, <<"1", "0">>}

\* values of the similarity slider (min 60, max 100, step 5): both ends
SimilarityInputs == {<<"6", "0">>, <<"1", "0", "0">>}

\* setSettings(prev => ({...prev, [key]: value}))
withSetting(settings, key, value) == [settings EXCEPT ![key] = value]

\* the slider values tried in UploadForm, where the settings of the form
\* and those of a build under way vary independently
FormWeightInputs == {<<"2", ".", "5">>}

FormThresholdInputs == {<<"0", ".", "5">>}

FormSimilarityInputs == {<<"1", "0", "0">>}

\* what one change of a control makes of settings, for sliders moved to the
\* given values; the similarity slider is rendered only while fuzzy_matching
\* is set
settingChanges(settings, weights, thresholds, similarities) ==
    {withSetting(settings, key, parseFloat(v)) : key \in WeightKeys, v \in weights}
    \cup {withSetting(settings, "threshold", parseFloat(v)) : v \in thresholds}
    \cup {withSetting(settings, "fuzzy_matching", checked) : checked \in BOOLEAN}
    \cup {withSetting(settings, "similarity_threshold", parseInt(v)) :
             v \in {w \in similarities : settings.fuzzy_matching}}

\* a control of UploadForm's settings step
InferenceChange ==
    /\ currentView = "upload"
    /\ uploadForm.step = "settings"
    /\ \E after \in settingChanges(uploadForm.inferenceSettings, FormWeightInputs,
                                   FormThresholdInputs, FormSimilarityInputs) :
          uploadForm' = [uploadForm EXCEPT !.inferenceSettings = after]
    /\ Observe("none")
    /\ UNCHANGED pending
    /\ UploadFrame

PanelFrame ==
    /\ UNCHANGED <<appVersion, connectionsList, currentView, selectedNode, showSettings, showMetrics,
                   queryBar, uploadForm, nodeDetail, pending, backend>>
    /\ UNCHANGED dataVars

\* a control of SettingsPanel's inference settings
PanelSettingChange ==
    /\ showSettings
    /\ \E after \in settingChanges(settingsPanel.settings, WeightInputs,
                                   ThresholdInputs, SimilarityInputs) :
          settingsPanel' = [settingsPanel EXCEPT !.settings = after]
    /\ Observe("none")
    /\ PanelFrame

\* the 'Show raw data' checkbox of SettingsPanel
ShowRawDataChange(checked) ==
    /\ showSettings
    /\ settingsPanel' = [settingsPanel EXCEPT !.privacySettings.show_raw_data = checked]
    /\ Observe("none")
    /\ PanelFrame

\* 'Reset to Defaults': the inference settings only
resetToDefaults ==
    /\ showSettings
    /\ settingsPanel' = [settingsPanel EXCEPT !.settings = InferenceDefaults]
    /\ Observe("none")
    /\ PanelFrame

\* 'Save Settings': onSettingsChange(settings), which logs them, then onClose()
handleSave ==
    /\ showSettings
    /\ showSettings' = FALSE
    /\ settingsPanel' = SettingsPanelInit
    /\ observed' = [observed EXCEPT !.last = "settingsSaved"]
    /\ UNCHANGED <<appVersion, connectionsList, currentView, selectedNode, showMetrics,
                   queryBar, uploadForm, nodeDetail, pending, backend>>
    /\ UNCHANGED dataVars

----------------------------------------------------------------------------
(* The application from its first render *)

\* the rows and targets clicked here: the first node of each file, and its neighbour
SelectInputs == {NodesA[1], NodesB[1]}

TargetInputs == {Some(NodesA[2].id), Some(NodesB[2].id)}

Init ==
    /\ appVersion \in {"memo", "state"}
    /\ currentView = "upload"
    /\ graphData = Null
    /\ metrics = Null
    /\ filters = EmptyFilters
    /\ queryResult = Null
    /\ filteredDataState = Null
    /\ selectedNode = Null
    /\ showSettings = FALSE
    /\ showMetrics = FALSE
    /\ pathHighlight = Null
    /\ subgraphMode = FALSE
    /\ queryBar = QueryBarInit
    /\ uploadForm = UploadFormInit
    /\ nodeDetail = NodeDetailInit
    /\ settingsPanel = SettingsPanelInit
    /\ connectionsList = ConnectionsListInit
    /\ pending = NoPending
    /\ backend = NoBackend
    /\ observed = NothingObserved

\* uploads, builds, queries and the company filter, from the first render on
Next ==
    \/ \E file \in Files : onDrop(file)
    \/ \E file \in Files : readerOnload(file)
    \/ \E index \in {0}, value \in {"company"} : MappingSelect(index, value)
    \/ MappingNext
    \/ handleBuildGraph
    \/ UploadAccepted
    \/ UploadRefused
    \/ UploadResolveOk
    \/ UploadResolveNotOk
    \/ BuildReject
    \/ GraphAnswered
    \/ GraphResolve
    \/ NewUpload
    \/ \E company \in {Str_B} : handleCompanyToggle(company)
    \/ clearAllFilters
    \/ \E text \in QueryInputs : SetQuery(text)
    \/ handleSubmit
    \/ \E q \in pending.queries, filter \in LLMFilters : QueryAnswered(q, filter)
    \/ \E q \in pending.queries : QueryResolve(q)
    \/ \E q \in pending.queries : QueryReject(q)

Spec == Init /\ [][Next]_vars

----------------------------------------------------------------------------
(* NodeDetail on the dashboard of a built graph: selections, the two       *)
(* selects, and the path and subgraph requests.                            *)

\* '' and the ids the target select can offer
TargetOptions == {Null} \cup {Some(id) : id \in NodeIds(NodesA) \cup NodeIds(NodesB)}

NextNode ==
    \/ \E node \in SelectInputs : SelectNode(node)
    \/ DeselectNode
    \/ \E target \in TargetOptions : SetTarget(target)
    \/ \E value \in DepthInputs : SetDepth(value)
    \/ handleFindPath
    \/ \E r \in pending.paths : PathAnswered(r)
    \/ \E r \in pending.paths : PathResolve(r)
    \/ \E r \in pending.paths : PathReject(r)
    \/ handleShowSubgraph
    \/ \E r \in pending.subgraphs : SubgraphAnswered(r)
    \/ \E r \in pending.subgraphs : SubgraphResolve(r)
    \/ \E r \in pending.subgraphs : SubgraphReject(r)
    \/ ShowFullGraph
    \/ ClearHighlight

SpecNode == InitFilter /\ [][NextNode]_vars

----------------------------------------------------------------------------
(* UploadForm through its three steps, with both 'Back' buttons and the    *)
(* 'Skip this column' option.                                              *)

NextUpload ==
    \/ \E file \in Files : onDrop(file)
    \/ \E file \in Files : readerOnload(file)
    \/ \E value \in MappingInputs : MappingSelect(0, value)
    \/ MappingBack
    \/ MappingNext
    \/ SettingsBack
    \/ handleBuildGraph
    \/ UploadAccepted
    \/ UploadRefused
    \/ UploadResolveOk
    \/ UploadResolveNotOk
    \/ BuildReject
    \/ GraphAnswered
    \/ GraphResolve
    \/ NewUpload

SpecUpload == Init /\ [][NextUpload]_vars

----------------------------------------------------------------------------
(* The inference settings of one upload and of the SettingsPanel opened    *)
(* on its dashboard.                                                       *)

NextSettings ==
    \/ onDrop("fileA")
    \/ readerOnload("fileA")
    \/ MappingNext
    \/ InferenceChange
    \/ handleBuildGraph
    \/ UploadAccepted
    \/ UploadResolveOk
    \/ BuildReject
    \/ GraphAnswered
    \/ GraphResolve
    \/ SettingsButton
    \/ PanelSettingChange
    \/ \E checked \in BOOLEAN : ShowRawDataChange(checked)
    \/ resetToDefaults
    \/ handleSave
    \/ CloseSettings

SpecSettings == Init /\ [][NextSettings]_vars

----------------------------------------------------------------------------
(* Where an email address is on screen: rows of the list are clicked,      *)
(* the eye button of NodeDetail is pressed, the list is searched.          *)

\* the rows clicked here: two connections of "fileA" and one of "fileB" with
\* an email, and one without
RowInputs == {NodesA[1], NodesA[3], NodesA[4], NodesB[1]}

NextPrivacy ==
    \/ \E node \in RowInputs : SelectNode(node)
    \/ DeselectNode
    \/ ToggleEmail
    \/ \E value \in SearchInputs : SetSearchTerm(value)
    \/ \E field \in SortFields : handleSort(field)
    \/ CompanyToggleAny

SpecPrivacy == InitFilter /\ [][NextPrivacy]_vars

----------------------------------------------------------------------------
(* Path requests between the nodes of one graph, each of which can be      *)
(* selected and can be chosen as the target.                               *)

\* the nodes selected here: two neighbours of "fileA", and one node of "fileB"
SourceInputs == {NodesA[1], NodesA[2], NodesB[1]}

NextPath ==
    \/ \E node \in SourceInputs : SelectNode(node)
    \/ DeselectNode
    \/ \E target \in TargetOptions : SetTarget(target)
    \/ handleFindPath
    \/ \E r \in pending.paths : PathAnswered(r)
    \/ \E r \in pending.paths : PathResolve(r)
    \/ \E r \in pending.paths : PathReject(r)
    \/ ClearHighlight

SpecPath == InitFilter /\ [][NextPath]_vars

----------------------------------------------------------------------------
(* MetricsPanel *)

Infinity == 1000000

\* (value / top) * 100 in whole percent; in JavaScript 0 / 0 is NaN and any
\* other division by 0 is Infinity
barWidth(value, top) ==
    IF top = 0 THEN (IF value = 0 THEN NaN ELSE Infinity) ELSE (value * 100) \div top

\* the widths of the bars of metrics.top_connectors.slice(0, 8)
connectorWidths(m) ==
    LET shown == slice(m.top_connectors, 8) IN
    [i \in 1..Len(shown) |-> barWidth(shown[i].degree, m.top_connectors[1].degree)]

\* the widths of the bars of metrics.centrality_leaders.slice(0, 8)
leaderWidths(m) ==
    LET shown == slice(m.centrality_leaders, 8) IN
    [i \in 1..Len(shown) |-> barWidth(shown[i].betweenness, m.centrality_leaders[1].betweenness)]

(* The analytics panel opened and closed over the graph of every file,     *)
(* with the company filter in use.                                         *)
NextMetrics ==
    \/ MetricsButton
    \/ CloseMetrics
    \/ CompanyToggleEnds
    \/ PositionToggleEnds
    \/ clearAllFilters

SpecMetrics == InitRanking /\ [][NextMetrics]_vars

----------------------------------------------------------------------------
(* The list under the filters and its own search box.                      *)

NextList ==
    \/ CompanyToggleAny
    \/ \E v \in MinDegreeInputs : MinDegreeChange(v)
    \/ \E v \in LocationInputs : LocationChange(v)
    \/ clearAllFilters
    \/ \E value \in SearchInputs : SetSearchTerm(value)
    \/ \E field \in SortFields : handleSort(field)

SpecList == InitFilter /\ [][NextList]_vars

\* every request made through api settles: it resolves, or the 30000 ms
\* timeout of the axios instance rejects it
BuildSettles == UploadResolveOk \/ UploadResolveNotOk \/ BuildReject \/ GraphResolve

QuerySettles == \E q \in pending.queries : QueryResolve(q) \/ QueryReject(q)

\* builds and queries from the first render on
NextLive ==
    \/ \E file \in Files : onDrop(file)
    \/ \E file \in Files : readerOnload(file)
    \/ \E index \in {0}, value \in {"company"} : MappingSelect(index, value)
    \/ MappingNext
    \/ handleBuildGraph
    \/ UploadAccepted
    \/ UploadRefused
    \/ UploadResolveOk
    \/ UploadResolveNotOk
    \/ BuildReject
    \/ GraphAnswered
    \/ GraphResolve
    \/ NewUpload
    \/ \E text \in QueryInputs : SetQuery(text)
    \/ handleSubmit
    \/ \E q \in pending.queries, filter \in {Null} : QueryAnswered(q, filter)
    \/ \E q \in pending.queries : QueryResolve(q)
    \/ \E q \in pending.queries : QueryReject(q)

SpecLive == Init /\ [][NextLive]_vars /\ WF_vars(BuildSettles) /\ WF_vars(QuerySettles)

----------------------------------------------------------------------------
(* The dashboard of a built graph.  SpecDashboard: its filters, queries,  *)
(* selections and subgraph requests across uploads of the first file.     *)
(* SpecRequests: every control and request of the dashboard of one graph. *)

\* the graph of the second file is on display
InitDashboard == InitFilter /\ backend.file = Some("fileB")

NextDashboard ==
    \/ \E company \in {Str_B} : handleCompanyToggle(company)
    \/ clearAllFilters
    \/ \E text \in QueryInputs : SetQuery(text)
    \/ handleSubmit
    \/ \E q \in pending.queries, filter \in {Null} : QueryAnswered(q, filter)
    \/ \E q \in pending.queries : QueryResolve(q)
    \/ \E q \in pending.queries : QueryReject(q)
    \/ \E node \in SelectInputs : SelectNode(node)
    \/ DeselectNode
    \/ ShowFullGraph
    \/ handleShowSubgraph
    \/ \E r \in pending.subgraphs : SubgraphAnswered(r)
    \/ \E r \in pending.subgraphs : SubgraphResolve(r)
    \/ \E r \in pending.subgraphs : SubgraphReject(r)
    \/ NewUpload
    \/ \E file \in {"fileA"} : onDrop(file)
    \/ \E file \in {"fileA"} : readerOnload(file)
    \/ MappingNext
    \/ handleBuildGraph
    \/ UploadAccepted
    \/ UploadResolveOk
    \/ BuildReject
    \/ GraphAnswered
    \/ GraphResolve

SpecDashboard == InitDashboard /\ [][NextDashboard]_vars

\* the dashboard of one built graph: every control of it and every request
\* it makes, the overlays included
NextRequests ==
    \/ \E company \in {Str_B} : handleCompanyToggle(company)
    \/ clearAllFilters
    \/ \E text \in QueryInputs : SetQuery(text)
    \/ handleSubmit
    \/ \E q \in pending.queries, filter \in {Null} : QueryAnswered(q, filter)
    \/ \E q \in pending.queries : QueryResolve(q)
    \/ \E q \in pending.queries : QueryReject(q)
    \/ MetricsButton
    \/ SettingsButton
    \/ CloseMetrics
    \/ CloseSettings
    \/ \E node \in SelectInputs : SelectNode(node)
    \/ DeselectNode
    \/ ShowFullGraph
    \/ ClearHighlight
    \/ \E target \in TargetInputs : SetTarget(target)
    \/ handleFindPath
    \/ \E r \in pending.paths : PathAnswered(r)
    \/ \E r \in pending.paths : PathResolve(r)
    \/ \E r \in pending.paths : PathReject(r)
    \/ handleShowSubgraph
    \/ \E r \in pending.subgraphs : SubgraphAnswered(r)
    \/ \E r \in pending.subgraphs : SubgraphResolve(r)
    \/ \E r \in pending.subgraphs : SubgraphReject(r)

SpecRequests == InitDashboard /\ [][NextRequests]_vars

----------------------------------------------------------------------------
(* What the filter is required to compute, stated without the code's       *)
(* string functions.                                                       *)

CasePairs ==
    {<<"A", "a">>, <<"B", "b">>, <<"C", "c">>, <<"D", "d">>, <<"E", "e">>,
     <<"F", "f">>, <<"L", "l">>, <<"S", "s">>}

SameLetter(c, d) == c = d \/ <<c, d>> \in CasePairs \/ <<d, c>> \in CasePairs

\* t occurs in s, letter case ignored
ContainsCI(s, t) ==
    \E off \in 0..(Len(s) - Len(t)) :
        \A j \in 1..Len(t) : SameLetter(s[off + j], t[j])

ListSupplied(o) == ~IsNull(o) /\ Val(o) # <<>>

DateSupplied(o) == ~IsNull(o) /\ Val(o) # DateEmpty

MeetsCompanies(n, f) ==
    ListSupplied(f.companies) =>
        /\ ~IsNull(n.company)
        /\ \E c \in Range(Val(f.companies)) : ContainsCI(Val(n.company), c)

MeetsPositions(n, f) ==
    ListSupplied(f.positions) =>
        /\ ~IsNull(n.position)
        /\ \E p \in Range(Val(f.positions)) : ContainsCI(Val(n.position), p)

MeetsLocation(n, f) ==
    (~IsNull(f.location) /\ Val(f.location) # <<>>) =>
        /\ ~IsNull(n.location)
        /\ ContainsCI(Val(n.location), Val(f.location))

MeetsDegree(n, f) ==
    ~IsNull(f.min_degree) =>
        (IF IsNull(n.degree) THEN 0 ELSE Val(n.degree)) >= Val(f.min_degree)

MeetsFour(n, f) ==
    MeetsCompanies(n, f) /\ MeetsPositions(n, f) /\ MeetsLocation(n, f) /\ MeetsDegree(n, f)

\* the node has a connection date inside the supplied range, bounds included
MeetsDates(n, f) ==
    (DateSupplied(f.date_from) \/ DateSupplied(f.date_to)) =>
        /\ ~IsNull(n.connected_on)
        /\ Val(n.connected_on).kind = "iso"
        /\ DateSupplied(f.date_from) =>
              (Val(f.date_from).kind = "iso" /\ Val(f.date_from).day <= Val(n.connected_on).day)
        /\ DateSupplied(f.date_to) =>
              (Val(f.date_to).kind = "iso" /\ Val(n.connected_on).day <= Val(f.date_to).day)

\* the nodes the connection-date step of the running revision lets through
PassesDateStep(n, f) ==
    appVersion = "memo" => n \in Range(dateStep(<<n>>, f))

----------------------------------------------------------------------------
IsFilterResult == appVersion = "memo" \/ filteredDataState # graphData

\* C2: the edge set of every filter result is exactly the set of original
\* edges whose source and target are both ids of result nodes, so no edge of
\* a result has an endpoint outside it, also for a graph with an edge to a
\* node it does not contain.
C2_FilterEdges ==
    (~IsNull(graphData) /\ IsNull(queryResult) /\ IsFilterResult) =>
        LET ids == NodeIds(Val(filteredData).nodes) IN
        /\ Range(Val(filteredData).edges) =
              {e \in Range(Val(graphData).edges) : e.source \in ids /\ e.target \in ids}
        /\ \A e \in Range(Val(filteredData).edges) : e.source \in ids /\ e.target \in ids

\* a filter result that lost an edge to an excluded node and the dangling edge, and kept one
C2_Witness ==
    /\ ~IsNull(graphData)
    /\ ~IsNull(filteredData)
    /\ filters.companies = Some(<<Str_Ac>>)
    /\ Range(Val(filteredData).edges) = {Edge("n1", "n2", 3)}
    /\ Edge("n1", "n9", 1) \in Range(Val(graphData).edges)

\* C3: when a connection-date range is supplied, every node of the filter
\* result has a connection date inside the range (bounds included) and no
\* node without one is kept, in both revisions of App.
C3_DateRange ==
    (~IsNull(graphData) /\ IsNull(queryResult) /\ ~IsNull(filteredData)) =>
        \A n \in Range(Val(filteredData).nodes) : MeetsDates(n, filters)

NoCriterion(f) ==
    /\ ~ListSupplied(f.companies)
    /\ ~ListSupplied(f.positions)
    /\ (IsNull(f.location) \/ Val(f.location) = <<>>)
    /\ (IsNull(f.min_degree) \/ Val(f.min_degree) = 0)
    /\ ~DateSupplied(f.date_from)
    /\ ~DateSupplied(f.date_to)

\* C4: in the "memo" revision, with no criterion supplied and no query
\* result held, the displayed node list is the graph's node list in its
\* order and the displayed edges are the graph edges between graph nodes.
C4_NoCriterion ==
    (appVersion = "memo" /\ ~IsNull(graphData) /\ IsNull(queryResult) /\ NoCriterion(filters)) =>
        /\ Val(filteredData).nodes = Val(graphData).nodes
        /\ Val(filteredData).edges =
              SelectSeq(Val(graphData).edges,
                        LAMBDA e : /\ e.source \in NodeIds(Val(graphData).nodes)
                                   /\ e.target \in NodeIds(Val(graphData).nodes))

\* the last selected company has been un-toggled and the slider is back at 0
C4_Witness ==
    /\ appVersion = "memo"
    /\ ~IsNull(graphData)
    /\ filters.companies = Some(<<>>)
    /\ filters.min_degree = Some(0)
    /\ Len(Val(filteredData).nodes) = 4
    /\ Len(Val(filteredData).edges) = 3

----------------------------------------------------------------------------
(* What the lifecycle is required to keep *)

\* the last step was a failed query or a failed NodeDetail request
QueryFailed == observed'.last = "queryRejected"

NodeRequestFailed == observed'.last \in {"pathRejected", "subgraphRejected"}

BuildFailed ==
    /\ observed.build = "running"
    /\ observed'.last \in {"buildRejected", "uploadNotOk"}

C6_FreshAfterBuild ==
    observed.last = "buildSucceeded" =>
        /\ graphData = Some(BackendGraph)
        /\ metrics = Some(MetricsOf(Val(backend.file), backend.upload))
        /\ filters = EmptyFilters
        /\ IsNull(queryResult)
        /\ ~IsNull(filteredData)
        /\ Val(filteredData).nodes = Val(graphData).nodes

\* C7: graphData and metrics are both null, or both come from the same
\* answer of GET /graph (the same file at the same upload).
C7_GraphAndMetricsTogether ==
    \/ IsNull(graphData) /\ IsNull(metrics)
    \/ /\ ~IsNull(graphData) /\ ~IsNull(metrics)
       /\ Val(graphData).upload \in 1..MaxUploads
       /\ \E file \in Files :
             /\ graphData = Some(GraphOf(file, Val(graphData).upload))
             /\ metrics = Some(MetricsOf(file, Val(graphData).upload))

\* the graph and the metrics of a second build have replaced those of the first
C7_Witness ==
    /\ observed.last = "buildSucceeded"
    /\ ~IsNull(graphData)
    /\ Val(graphData).upload = 2
    /\ Val(metrics).upload = 2

\* C8: when a build fails, App's graphData, metrics, filters, query result
\* and current view are what they were when the build started.
C8_FailedBuildRestores ==
    [][BuildFailed => AppSnapshot' = observed.app]_vars

\* C9: a query that fails leaves graphData, filters, the query result and
\* lastExplanation as they were; a path or subgraph request that fails
\* leaves the displayed data and the highlight as they were.
C9_FailedQueryChangesNothing ==
    [][/\ QueryFailed =>
            /\ UNCHANGED <<graphData, metrics, filters, queryResult, filteredDataState>>
            /\ queryBar'.lastExplanation = queryBar.lastExplanation
            /\ queryBar'.query = queryBar.query
       /\ NodeRequestFailed =>
            /\ UNCHANGED dataVars
            /\ filteredData' = filteredData]_vars

\* a query has failed after an earlier one was answered and explained
C9_Witness ==
    /\ observed.last = "queryRejected"
    /\ queryBar.lastExplanation = Str_explain
    /\ ~queryBar.isLoading
    /\ filters # EmptyFilters

\* C10: the answer to a query submitted under the previous graph, arriving
\* after the new graph is installed, is not displayed and does not replace
\* the filters.
C10_StaleAnswerIgnored ==
    [][observed'.last = "staleQueryResolved" =>
            /\ filters' = filters
            /\ filteredData' = filteredData]_vars

\* the requests the server answers in this step
AnsweredNow ==
    {q \in pending'.queries : q.phase = "answered" /\ q \notin pending.queries}
    \cup {r \in pending'.paths : r.phase = "answered" /\ r \notin pending.paths}
    \cup {r \in pending'.subgraphs : r.phase = "answered" /\ r \notin pending.subgraphs}

\* C11: whenever the server answers a query, a shortest-path or a subgraph
\* request, the graph it holds is the graph App holds in graphData, of the
\* same upload as metrics.
C11_BackendIsCurrent ==
    [][AnsweredNow # {} =>
            /\ graphData = Some(BackendGraph)
            /\ metrics = Some(MetricsOf(Val(backend.file), backend.upload))]_vars

\* C12: at most one build and at most one query are outstanding, and no
\* build is outstanding together with a query.
C12_OneAtATime ==
    /\ Cardinality(pending.queries) <= 1
    /\ ~IsNull(pending.build) => pending.queries = {}

\* C13: given that every request settles, a QueryBar that is loading
\* eventually is not, and an UploadForm that is loading eventually is not,
\* whether the request succeeded or failed.
C13_LoadingEnds ==
    /\ queryBar.isLoading ~> ~queryBar.isLoading
    /\ uploadForm.isLoading ~> ~uploadForm.isLoading

\* a build has failed on the status of its upload and the form can be used
\* again, in a session that has built a graph before and whose last query
\* has settled
C13_Witness ==
    /\ observed.last = "uploadNotOk"
    /\ ~uploadForm.isLoading
    /\ uploadForm.step = "settings"
    /\ ~IsNull(graphData)
    /\ backend.upload = 2
    /\ pending.queries = {}

\* C14: right after the answer to a query is applied, the displayed nodes
\* are the nodes of graphData that the returned filter keeps under the
\* semantics of a manual filter, and the displayed edges are the edges of
\* graphData between them.
C14_QueryIsFilter ==
    (observed.last \in {"queryResolved", "staleQueryResolved"}) =>
        /\ ~IsNull(filteredData)
        /\ ~IsNull(graphData)
        /\ Val(filteredData).nodes = memoFilter(Val(graphData), filters).nodes
        /\ Val(filteredData).edges = memoFilter(Val(graphData), filters).edges

\* the path requests sent, and those settled, in this step
PathsSent == {r \in pending'.paths : r.phase = "sent" /\ r \notin pending.paths}

PathsSettled == {r \in pending.paths : r \notin pending'.paths /\ r.phase = "answered"}

\* C15: a path request is sent only with a target chosen; an answer with
\* exists = true becomes the highlighted path, and an answer with
\* exists = false is taken as an answer, not as a failure, and like a
\* failure leaves the highlighted path and the displayed data as they were.
C15_PathShownIffExists ==
    [][/\ PathsSent # {} => ~IsNull(nodeDetail.targetNodeId)
       /\ \A r \in PathsSettled :
            /\ (observed'.last = "pathResolved" /\ Val(r.path).exists /\ appVersion = "state")
                    => pathHighlight' = r.path
            /\ (observed'.last = "pathResolved" /\ ~Val(r.path).exists)
                    => (UNCHANGED dataVars /\ filteredData' = filteredData)
       /\ observed'.last = "pathRejected"
            => (UNCHANGED dataVars /\ filteredData' = filteredData)]_vars

\* the server has answered that no path leads to the isolated node, after
\* an earlier path was found and highlighted: the highlight is still there
C15_Witness ==
    /\ appVersion = "state"
    /\ observed.last = "pathResolved"
    /\ nodeDetail.targetNodeId = Some("m3")
    /\ ~IsNull(pathHighlight)
    /\ Val(pathHighlight).exists

\* C20: the depth of NodeDetail and of every subgraph request is 1, 2 or 3,
\* it starts at 1, and a request made without a depth carries 1.
C20_DepthInRange ==
    /\ nodeDetail.subgraphDepth \in {1, 2, 3}
    /\ \A r \in pending.subgraphs : r.depth \in {1, 2, 3}
    /\ NodeDetailInit.subgraphDepth = 1
    /\ depthParam(Null) = 1

\* a subgraph of 3 hops has been requested
C20_Witness ==
    /\ nodeDetail.subgraphDepth = 3
    /\ \E r \in pending.subgraphs : r.depth = 3

\* C16: a build request is sent only with a file selected and at least one
\* column mapped to a canonical field; a mapping of skipped columns only
\* never reaches the build step.
C16_BuildNeedsMapping ==
    ~IsNull(pending.build) =>
        /\ Val(pending.build).file \in Files
        /\ \E k \in DOMAIN Val(pending.build).mapping :
              Val(pending.build).mapping[k] \in canonicalFields

\* in tenths: a multiple of 0.5 between lo and hi
HalfSteps(lo, hi) == {v \in lo..hi : v % 5 = 0}

ValidSettings(settings) ==
    /\ \A key \in WeightKeys : settings[key] \in HalfSteps(0, 50)
    /\ settings.threshold \in HalfSteps(5, 100)
    /\ settings.fuzzy_matching \in BOOLEAN
    /\ settings.similarity_threshold \in {v \in 60..100 : v % 5 = 0}

\* C17: the inference settings of UploadForm, of every build request and
\* of SettingsPanel (which it hands to onSettingsChange on Save) are in
\* range: weights multiples of 0.5 in [0, 5], threshold a multiple of 0.5 in
\* [0.5, 10], similarity_threshold a multiple of 5 in [60, 100]; both forms
\* start from 3, 2, 1, 1, threshold 2, fuzzy matching on, similarity 85.
C17_SettingsInRange ==
    /\ ValidSettings(uploadForm.inferenceSettings)
    /\ ValidSettings(settingsPanel.settings)
    /\ ~IsNull(pending.build) => ValidSettings(Val(pending.build).settings)
    /\ UploadFormInit.inferenceSettings = SettingsPanelInit.settings
    /\ UploadFormInit.inferenceSettings =
          [company_weight |-> 30, school_weight |-> 20, location_weight |-> 10,
           position_weight |-> 10, threshold |-> 20, fuzzy_matching |-> TRUE,
           similarity_threshold |-> 85]

\* a build was sent with the smallest threshold, a weight of 2.5 and fuzzy
\* matching switched off after the similarity was moved to 100
C17_Witness ==
    /\ ~IsNull(pending.build)
    /\ Val(pending.build).settings.threshold = 5
    /\ Val(pending.build).settings.school_weight = 25
    /\ ~Val(pending.build).settings.fuzzy_matching
    /\ Val(pending.build).settings.similarity_threshold = 100

\* the index of the first of items that equals key
FirstAt(items, key) ==
    CHOOSE i \in 1..Len(items) : items[i] = key /\ \A j \in 1..(i - 1) : items[j] # key

Occurrences(items, key) == Cardinality({i \in 1..Len(items) : items[i] = key})

\* a ranks before b: more occurrences, or as many and met earlier
RanksBefore(items, a, b) ==
    \/ Occurrences(items, a) > Occurrences(items, b)
    \/ /\ Occurrences(items, a) = Occurrences(items, b)
       /\ FirstAt(items, a) < FirstAt(items, b)

\* list is the first limit entries of the ranking of the distinct items
IsRanking(list, items, limit) ==
    LET distinct == {items[i] : i \in 1..Len(items)}
        listed == {list[i].name : i \in 1..Len(list)}
    IN  /\ Len(list) = (IF Cardinality(distinct) < limit THEN Cardinality(distinct) ELSE limit)
        /\ listed \subseteq distinct
        /\ \A i \in 1..Len(list) : list[i].count = Occurrences(items, list[i].name)
        /\ \A i, j \in 1..Len(list) : i < j => RanksBefore(items, list[i].name, list[j].name)
        /\ \A i \in 1..Len(list) : \A key \in distinct \ listed :
                RanksBefore(items, list[i].name, key)

\* the non-empty company values of the nodes, in node order
CompaniesIn(nodes) ==
    LET having == SelectSeq(nodes, LAMBDA n : ~IsNull(n.company) /\ Val(n.company) # <<>>) IN
    [i \in 1..Len(having) |-> Val(having[i].company)]

\* the members of a set of numbers in ascending order
Ascending(S) ==
    CHOOSE seq \in [1..Cardinality(S) -> S] :
        \A i, j \in 1..Cardinality(S) : i < j => seq[i] < seq[j]

\* the words of a title: its longest runs of characters other than white
\* space, comma, slash and hyphen, in lower case, in their order
WordsOf(title) ==
    LET t == toLowerCase(title)
        starts == {i \in 1..Len(t) : ~IsSeparator(t[i]) /\ (i = 1 \/ IsSeparator(t[i - 1]))}
        EndOf(i) == CHOOSE j \in i..Len(t) :
                        /\ \A k \in i..j : ~IsSeparator(t[k])
                        /\ (j = Len(t) \/ IsSeparator(t[j + 1]))
        from == Ascending(starts)
    IN  [n \in 1..Len(from) |-> SubSeq(t, from[n], EndOf(from[n]))]

\* the words longer than 2 characters of the titles of the nodes, in order
RECURSIVE KeywordsIn(_)
KeywordsIn(nodes) ==
    IF nodes = <<>> THEN <<>>
    ELSE LET node == nodes[1]
             words == IF IsNull(node.position) THEN <<>> ELSE WordsOf(Val(node.position))
         IN  SelectSeq(words, LAMBDA w : Len(w) > 2) \o KeywordsIn(Tail(nodes))

\* C18: the company list of FilterPanel holds the distinct non-empty
\* companies of the graph, each with the number of nodes that have exactly
\* it, by count descending and first met first among equals, cut to 20; the
\* keyword list is that ranking of the words longer than 2 characters of the
\* positions, cut to 15.
C18_ListsAreRankings ==
    ~IsNull(graphData) =>
        /\ IsRanking(availableCompanies(graphData), CompaniesIn(Val(graphData).nodes), 20)
        /\ IsRanking(availablePositions(graphData), KeywordsIn(Val(graphData).nodes), 15)

\* the graph has more companies and keywords than are listed, a company
\* met late is listed first because two nodes have it, and the last
\* checkbox of the company list has been ticked
C18_Witness ==
    /\ ~IsNull(graphData)
    /\ Cardinality({CompaniesIn(Val(graphData).nodes)[i] :
                       i \in 1..Len(CompaniesIn(Val(graphData).nodes))}) > 20
    /\ Len(availableCompanies(graphData)) = 20
    /\ Len(availablePositions(graphData)) = 15
    /\ availableCompanies(graphData)[1] = [name |-> CompanyName(21), count |-> 2]
    /\ availableCompanies(graphData)[2] = [name |-> CompanyName(22), count |-> 2]
    /\ filters.companies = Some(<<CompanyName(18)>>)

RECURSIVE SumOver(_, _)
SumOver(data, nodes) ==
    IF nodes = <<>> THEN 0
    ELSE getConnectionCount(data, nodes[1].id) + SumOver(data, Tail(nodes))

\* C19 as stated: the connection counts of the rows listed add up to twice
\* the number of edges of the data set.
C19_ListedRowsHandshake ==
    (appVersion = "memo" /\ currentView = DashboardView /\ ~IsNull(filteredData)) =>
        SumOver(Val(filteredData),
                filteredConnections(Val(filteredData), connectionsList.searchTerm))
            = 2 * Len(Val(filteredData).edges)

\* C19, amended: the connection counts of all nodes of the data set, which
\* are the rows listed while the search box is empty, add up to twice the
\* number of its edges.
C19_Handshake ==
    (appVersion = "memo" /\ currentView = DashboardView /\ ~IsNull(filteredData)) =>
        /\ SumOver(Val(filteredData), Val(filteredData).nodes)
              = 2 * Len(Val(filteredData).edges)
        /\ connectionsList.searchTerm = <<>> =>
              filteredConnections(Val(filteredData), <<>>) = Val(filteredData).nodes

\* the list shows fewer nodes than the graph, with at least one edge
\* between them and one edge of the graph left out
C19_Witness ==
    /\ appVersion = "memo" /\ ~IsNull(filteredData) /\ ~IsNull(graphData)
    /\ connectionsList.searchTerm = <<>>
    /\ Len(Val(filteredData).nodes) < Len(Val(graphData).nodes)
    /\ Len(Val(filteredData).edges) >= 1
    /\ Len(Val(filteredData).edges) < Len(Val(graphData).edges)

\* C21: whenever the analytics panel is shown, every bar of the top
\* connectors and of the centrality leaders has a width that is a number
\* from 0 to 100, also for a graph whose nodes are all isolated.
MetricsShown == showMetrics /\ ~IsNull(metrics) /\ currentView = DashboardView

C21_WidthsDefined ==
    MetricsShown =>
        /\ \A i \in DOMAIN connectorWidths(Val(metrics)) : connectorWidths(Val(metrics))[i] \in 0..100
        /\ \A i \in DOMAIN leaderWidths(Val(metrics)) : leaderWidths(Val(metrics))[i] \in 0..100

\* C22: in the connected-nodes lists NodeDetail derives from the displayed
\* data, b is in the list of a exactly when a is in the list of b, no node
\* is in its own list, and every list runs from the heaviest edge to the
\* lightest.
ListedIds(data, a) ==
    {connectedNodes(data, a)[k].node : k \in DOMAIN connectedNodes(data, a)}

C22_NeighboursSymmetric ==
    ~IsNull(filteredData) =>
        LET data == Val(filteredData)
            listed == [a \in Range(data.nodes) |-> ListedIds(data, a)]
        IN  \A a \in Range(data.nodes) :
                /\ \A b \in Range(data.nodes) : (b.id \in listed[a]) <=> (a.id \in listed[b])
                /\ a.id \notin listed[a]
                /\ LET list == connectedNodes(data, a) IN
                   \A k \in 1..(Len(list) - 1) : list[k].weight >= list[k + 1].weight

\* NodeDetail shows a node of a graph in which n4 has its heavier neighbour,
\* the later of its two edges, listed first
C22_Witness ==
    /\ ~IsNull(selectedNode)
    /\ ~IsNull(filteredData)
    /\ NodesA[4] \in Range(Val(filteredData).nodes)
    /\ Val(selectedNode) \in Range(Val(filteredData).nodes)
    /\ connectedNodes(Val(filteredData), Val(selectedNode)) # <<>>
    /\ Len(connectedNodes(Val(filteredData), NodesA[4])) = 2
    /\ connectedNodes(Val(filteredData), NodesA[4])[1] = [node |-> "n2", weight |-> 2]

\* C23: in the App that holds a query result (part_000), a held query
\* result is what is displayed, whatever filters holds; applying the answer
\* of a query sets filters to the filter of the answer, or to {} when the
\* answer has none; and a change made in FilterPanel leaves no query result
\* and displays the local filtering of graphData by the new filters.
ManualFilterChange ==
    \/ \E company \in {Str_B} : handleCompanyToggle(company)
    \/ CompanyToggleAny
    \/ PositionToggleAny
    \/ \E v \in MinDegreeInputs : MinDegreeChange(v)
    \/ \E v \in LocationInputs : LocationChange(v)
    \/ \E v \in DateFromInputs : DateFromChange(v)
    \/ \E v \in DateToInputs : DateToChange(v)
    \/ clearAllFilters

QueryApplied(q) ==
    /\ q \in pending.queries
    /\ q \notin pending'.queries
    /\ q.phase = "answered"
    /\ observed'.last \in {"queryResolved", "staleQueryResolved"}

C23_QueryResultPrecedence ==
    [][appVersion = "memo" =>
          /\ ~IsNull(queryResult') => filteredData' = queryResult'
          /\ \A q \in pending.queries :
                QueryApplied(q) =>
                    /\ queryResult' = Val(q.result).graph
                    /\ filters' = (IF IsNull(Val(q.result).filter) THEN EmptyFilters
                                   ELSE Val(Val(q.result).filter))
          /\ (currentView = DashboardView /\ observed'.last = "none" /\ pending' = pending
              /\ queryBar' = queryBar /\ selectedNode' = selectedNode
              /\ ManualFilterChange) =>
                /\ queryResult' = Null
                /\ filteredData' = Some(memoFilter(Val(graphData), filters'))]_vars

\* the answer of a query was applied and explained, and a change in
\* FilterPanel has since discarded the result
C23_Witness ==
    /\ appVersion = "memo"
    /\ currentView = DashboardView
    /\ queryBar.lastExplanation = Str_explain
    /\ IsNull(queryResult)
    /\ filters.companies = Some(<<>>)
    /\ filteredData = Some(memoFilter(Val(graphData), filters))

\* C24: the email of a node comes on screen in clear only by a press of
\* the eye button of NodeDetail while that node is selected: not by
\* selecting the node, and not in any other component.
EmailOpenInDetail(node) ==
    /\ currentView = DashboardView
    /\ selectedNode = Some(node)
    /\ StrTruthy(node.email)
    /\ nodeDetail.showEmail

EmailOpenInList(node) ==
    /\ currentView = DashboardView
    /\ appVersion = "memo"
    /\ ~IsNull(filteredData)
    /\ node \in Range(filteredConnections(Val(filteredData), connectionsList.searchTerm))
    /\ connectionsList.expandedId = Some(node.id)
    /\ StrTruthy(node.email)

EmailInClear(node) == EmailOpenInDetail(node) \/ EmailOpenInList(node)

C24_EmailMaskedUntilRevealed ==
    [][\A node \in Range(NodesA) \cup Range(NodesB) :
          (~EmailInClear(node) /\ EmailInClear(node)') =>
              (ToggleEmail /\ selectedNode = Some(node))]_vars

\* C25: once no FileReader of UploadForm is at work, the preview in state is
\* the one parsed from the file held in the file state, and a build request
\* carries the file whose preview was mapped.
C25_PreviewOfSelectedFile ==
    /\ (currentView = "upload" /\ pending.reads = {} /\ ~IsNull(uploadForm.csvPreview)) =>
            uploadForm.csvPreview = uploadForm.file
    /\ (currentView = "upload" /\ pending.reads = {} /\ ~IsNull(pending.build)) =>
            Some(Val(pending.build).file) = uploadForm.csvPreview

\* C26: while UploadForm is on screen its step moves only between
\* neighbours of upload - mapping - settings; step is 'mapping' or
\* 'settings' only with a file and a preview in state; a build request is
\* sent only from step 'settings'; and the view leaves 'upload' only when a
\* build has succeeded.
WizardMoves ==
    { <<"upload", "mapping">>, <<"mapping", "upload">>,
      <<"mapping", "settings">>, <<"settings", "mapping">> }

C26_WizardOrder ==
    [][/\ (currentView = "upload" /\ currentView' = "upload"
           /\ uploadForm'.step # uploadForm.step) =>
              <<uploadForm.step, uploadForm'.step>> \in WizardMoves
       /\ (currentView' = "upload" /\ uploadForm'.step \in {"mapping", "settings"}) =>
              ~IsNull(uploadForm'.file) /\ ~IsNull(uploadForm'.csvPreview)
       /\ (IsNull(pending.build) /\ ~IsNull(pending'.build)) =>
              uploadForm.step = "settings" /\ currentView = "upload"
       /\ (currentView = "upload" /\ currentView' # "upload") =>
              observed'.last = "buildSucceeded" /\ currentView' = DashboardView]_vars

\* the wizard has been gone through a second time, up to the dashboard
C26_Witness ==
    /\ currentView = DashboardView
    /\ observed.last = "buildSucceeded"
    /\ backend.upload = 2
    /\ uploadForm.step = "upload"

\* C27: a company toggle changes filters.companies alone, keeps a list
\* without duplicates free of them, and toggling the same company once more
\* gives back a list with the members there were; the same for positions.
\* Toggling twice restores the members of lists with duplicates too.
Members(current) == IF IsNull(current) THEN {} ELSE Range(Val(current))

NoDuplicate(current) ==
    IsNull(current) \/ Cardinality(Range(Val(current))) = Len(Val(current))

OtherCriteria(f, field) ==
    IF field = "companies"
    THEN <<f.positions, f.location, f.min_degree, f.date_from, f.date_to>>
    ELSE <<f.companies, f.location, f.min_degree, f.date_from, f.date_to>>

ShortLists ==
    {Null} \cup {Some(list) : list \in UNION {[1..n -> {Str_Ac, Str_B}] : n \in 0..3}}

C27_TogglesAreInvolutions ==
    [][/\ filters'.companies # filters.companies =>
             LET listed == availableCompanies(graphData) IN
             \A i \in 1..Len(listed) :
                 handleCompanyToggle(listed[i].name) =>
                     /\ OtherCriteria(filters', "companies") = OtherCriteria(filters, "companies")
                     /\ NoDuplicate(filters.companies) => NoDuplicate(filters'.companies)
                     /\ Members(Some(toggle(filters'.companies, listed[i].name)))
                            = Members(filters.companies)
       /\ filters'.positions # filters.positions =>
             LET listed == availablePositions(graphData) IN
             \A i \in 1..Len(listed) :
                 handlePositionToggle(listed[i].name) =>
                     /\ OtherCriteria(filters', "positions") = OtherCriteria(filters, "positions")
                     /\ NoDuplicate(filters.positions) => NoDuplicate(filters'.positions)
                     /\ Members(Some(toggle(filters'.positions, listed[i].name)))
                            = Members(filters.positions)
       /\ filters = EmptyFilters =>
             \A current \in ShortLists, c \in {Str_Ac, Str_B} :
                 Members(Some(toggle(Some(toggle(current, c)), c))) = Members(current)]_vars

\* every company has been toggled off again while other criteria are set
C27_Witness ==
    /\ filters.companies = Some(<<>>)
    /\ ~IsNull(filters.positions) /\ Len(Val(filters.positions)) >= 2
    /\ StrTruthy(filters.location)
    /\ NumTruthy(filters.min_degree)

\* C28: with an empty search term the list has every node of the data, and
\* with any other term exactly the nodes of which the label, the company,
\* the position, the location or the email contains the term, letter case
\* ignored; in ConnectionsList and in its earlier revision.
HasTerm(node, term) ==
    \E field \in {Some(label(node)), node.company, node.position, node.location, node.email} :
        ~IsNull(field) /\ ContainsCI(Val(field), term)

RowsExpected(data, term) ==
    IF term = <<>> THEN data.nodes
    ELSE SelectSeq(data.nodes, LAMBDA node : HasTerm(node, term))

C28_ListedIffFieldHasTerm ==
    (appVersion = "memo" /\ currentView = DashboardView /\ ~IsNull(filteredData)) =>
        LET data == Val(filteredData)
            term == connectionsList.searchTerm
        IN  /\ filteredConnections(data, term) = RowsExpected(data, term)
            /\ filteredByNodeText(data, term) = RowsExpected(data, term)

\* C29: on the dashboard the selected node, when there is one, is a node
\* of the data displayed.
C29_SelectedIsDisplayed ==
    (currentView = DashboardView /\ ~IsNull(selectedNode)) =>
        /\ ~IsNull(filteredData)
        /\ Val(selectedNode) \in Range(Val(filteredData).nodes)

\* C30: no shortest-path request has the selected node as its target.
C30_TargetIsNotSource ==
    \A r \in pending.paths : r.source # r.target

====
